---------------------------- MODULE Spec2Model ----------------------------
(***************************************************************************)
(* A model of the NY tax-credit dashboard (dparrishwth/ny-income-data):    *)
(*   - the remote query client socrataQuery (lib/socrataV3, two revisions  *)
(*     kept in src/unnamed/part_000 and src/unnamed/part_001),             *)
(*   - the column resolver getColumnMap and the GET /api/ny-credits        *)
(*     handler of src/app/api/ny-credits/route.ts (second revision),       *)
(*   - the client page's fetchData of src/app/ny-credits/page.tsx,         *)
(*   - the client page's filters, handlers and effects around fetchData,  *)
(*   - the queries and the response payload GET builds for one request,    *)
(*   - the text functions of the handler and of the page (parseSearchParams,*)
(*     buildWhere, the CSV writer, the program parameter) on one input.    *)
(* Each part has its own specification over the shared variables; the      *)
(* variables of the other parts stay at their initial values.              *)
(***************************************************************************)
EXTENDS Integers, Sequences, FiniteSets, Bags, TLC

VARIABLES
    \* ---- remote query client (socrataQuery) ----
    lib,          \* which revision of the client is deployed
    hasToken,     \* Boolean(headers["X-App-Token"])
    qpc,          \* position of the running socrataQuery call
    qLog,         \* the HTTP requests of the call, each with its answer
    qResult,      \* the rows the call returned
    qError,       \* the message of the Error the call threw
    qCalls,       \* calls made so far
    \* ---- route handler (GET /api/ny-credits) ----
    dataset,          \* what the upstream answers: metadata columns, sample response
    cachedColumnMap,  \* the module-level cache of getColumnMap
    req,              \* the bag of GET requests in flight or just answered, one record each
    \* ---- client page (NyCreditsPage) ----
    mounted,             \* the component is mounted
    calls,               \* the fetchData calls in call order, one record each
    abortControllerRef,  \* abortControllerRef.current: the call whose controller it holds
    data,                \* useState: data
    loading,             \* useState: loading
    error,               \* useState: error
    setLog,              \* fetchData's calls of setLoading, setError and setData, in order
    appliedFilters,      \* useState: appliedFilters
    draftFilters,        \* useState: draftFilters
    effects,             \* the effects React has to run after the last render
    untouched,           \* no user action and no failed response so far
    \* ---- route handler: one healthy request for JSON, with its data ----
    getRoute,      \* which revision of the route handler is deployed
    getPc,         \* position of GET
    getParams,     \* parseSearchParams(req)
    getUpstream,   \* what the upstream answers each query with
    getColumns,    \* what getColumnMap ended with
    getQueries,    \* the query strings GET built
    getResponse,   \* the response of GET
    \* ---- text functions, applied to one input ----
    textPc,        \* position: the input is given, or the function has returned
    textInput,     \* the function and its arguments
    textOutput     \* what the function returned

qvars == <<lib, hasToken, qpc, qLog, qResult, qError, qCalls>>

svars == <<dataset, cachedColumnMap, req>>

fvars == <<appliedFilters, draftFilters, effects, untouched>>

pvars == <<mounted, calls, abortControllerRef, data, loading, error, setLog, fvars>>

vars == <<lib, hasToken, qpc, qLog, qResult, qError, qCalls,
          dataset, cachedColumnMap, req,
          mounted, calls, abortControllerRef, data, loading, error, setLog,
          appliedFilters, draftFilters, effects, untouched,
          getRoute, getPc, getParams, getUpstream, getColumns, getQueries, getResponse,
          textPc, textInput, textOutput>>

tvars == <<textPc, textInput, textOutput>>

gvars == <<getRoute, getPc, getParams, getUpstream, getColumns, getQueries, getResponse>>

\* What the actions of one part leave alone
notQ == <<svars, pvars, gvars, tvars>>

notS == <<qvars, pvars, gvars, tvars>>

notP == <<qvars, svars, gvars, tvars>>

notG == <<qvars, svars, pvars, tvars>>

notT == <<qvars, svars, pvars, gvars>>

-----------------------------------------------------------------------------
(* Bounds of the model *)

\* socrataQuery calls made in one behaviour
MaxCalls == 2

\* GET requests in flight at the same time
MaxRequests == 2

\* fetchData calls of the page
MaxFetches == 3

\* Rows in the answer to the yearly query
MaxRows == 3

\* Characters in a text parameter of a request and in a field of a row
MaxText == 3

-----------------------------------------------------------------------------
(***************************************************************************)
(* Remote query client                                                     *)
(***************************************************************************)

None == "none"

Libs == {"part_000", "part_001"}

\* The statements the route sends
Queries == {"SELECT * LIMIT 1", "SELECT year"}

\* Row sets an endpoint may answer with
RowSets == {"rowsA", "rowsB"}

\* res.status of a failed response; 0 stands for an error that carries no
\* status (fetch rejected, or res.json() threw)
FailStatuses == {0, 401, 403, 404, 500}

OkStatus == 200

\* `https://data.ny.gov/api/v3/views/${DATASET_ID}/query.json`, ?query=
V3Endpoint == [base |-> "api/v3/views/qjqv-zrwt/query.json", param |-> "query"]

\* `https://data.ny.gov/resource/${DATASET_ID}.json`, ?$query=
SoqlEndpoint == [base |-> "resource/qjqv-zrwt.json", param |-> "$query"]

\* The endpoint the first request of a call goes to
PrimaryEndpoint(l) == IF l = "part_000" THEN V3Endpoint ELSE SoqlEndpoint

\* The endpoint the second request of a call goes to
SecondaryEndpoint(l) == IF l = "part_000" THEN SoqlEndpoint ELSE V3Endpoint

\* text || res.statusText of a failed response, (error as Error).message
ErrorText(status) ==
    CASE status = 401 -> "Unauthorized"
      [] status = 403 -> "Forbidden"
      [] status = 404 -> "Not Found"
      [] status = 500 -> "Internal Server Error"
      [] OTHER -> "fetch failed"

\* `${status}` in a template string
StatusText(status) == ToString(status)

\* `${status || "unknown"}`
StatusOrUnknown(status) == IF status # 0 THEN ToString(status) ELSE "unknown"

NeedsFallback000_TokenInverted(status, token) ==
    status # 0 /\ (status = 401 \/ status = 403) /\ token

\* part_000 falls back only when the failure is 401/403 and no token is set
\* (line 123; lines 119-121 have already thrown for any other status)
NeedsFallback000(status, token) ==
    status # 0 /\ (status = 401 \/ status = 403) /\ ~token

\* part_001 falls back after every failure of the primary request
NeedsFallback001(status, token) == TRUE

NeedsFallback(l, status, token) ==
    IF l = "part_000" THEN NeedsFallback000(status, token)
    ELSE NeedsFallback001(status, token)

\* The Error thrown when the primary request failed and no fallback is made
\* (part_000 lines 119-121 and 140)
PrimaryErrorMessage(status) ==
    IF status # 0 /\ status # 401 /\ status # 403
    THEN <<"Socrata request failed (", StatusText(status), "): ", ErrorText(status)>>
    ELSE <<"Socrata request failed (", StatusOrUnknown(status), "): ", ErrorText(status)>>

CombinedErrorMessage000_DropsFallback(primary, fallback) ==
    <<"Socrata request failed (", StatusText(primary),
      ") without an app token and fallback query failed (", StatusText(primary),
      "): ", ErrorText(fallback)>>

\* The Error thrown when both requests failed, part_000 lines 132-136
CombinedErrorMessage000(primary, fallback) ==
    <<"Socrata request failed (", StatusText(primary),
      ") without an app token and fallback query failed (", StatusText(fallback),
      "): ", ErrorText(fallback)>>

\* The Error thrown when both requests failed, part_001 lines 50-57
CombinedErrorMessage001(primary, fallback) ==
    <<"Socrata request failed (", StatusOrUnknown(primary), "): ", ErrorText(primary),
      ". Fallback request failed (", StatusOrUnknown(fallback), "): ", ErrorText(fallback)>>

CombinedErrorMessage(l, primary, fallback) ==
    IF l = "part_000" THEN CombinedErrorMessage000(primary, fallback)
    ELSE CombinedErrorMessage001(primary, fallback)

\* One HTTP request of a call and the answer fetchJson got
Request(endpoint, query, status, rows) ==
    [endpoint |-> endpoint, query |-> query, status |-> status, rows |-> rows]

\* The client at rest, for the specifications of the other parts
QIdle ==
    /\ lib = "part_000"
    /\ hasToken = FALSE
    /\ qpc = "idle"
    /\ qLog = <<>>
    /\ qResult = None
    /\ qError = <<>>
    /\ qCalls = 0

QInit ==
    /\ lib \in Libs
    /\ hasToken \in BOOLEAN
    /\ qpc = "idle"
    /\ qLog = <<>>
    /\ qResult = None
    /\ qError = <<>>
    /\ qCalls = 0

\* socrataQuery(query) up to its first await: the primary request is sent
QueryCall(query) ==
    /\ qpc \in {"idle", "returned", "thrown"}
    /\ qCalls < MaxCalls
    /\ qCalls' = qCalls + 1
    /\ qpc' = "primary"
    /\ qLog' = <<Request(PrimaryEndpoint(lib), query, None, None)>>
    /\ qResult' = None
    /\ qError' = <<>>
    /\ UNCHANGED <<lib, hasToken>>
    /\ UNCHANGED notQ

\* fetchJson of the primary request resolves: the call returns its rows
PrimaryOk(rows) ==
    /\ qpc = "primary"
    /\ qLog' = <<[qLog[1] EXCEPT !.status = OkStatus, !.rows = rows]>>
    /\ qResult' = rows
    /\ qpc' = "returned"
    /\ UNCHANGED <<lib, hasToken, qError, qCalls>>
    /\ UNCHANGED notQ

\* fetchJson of the primary request throws: the catch block either throws or
\* sends the fallback request
PrimaryFail(status) ==
    /\ qpc = "primary"
    /\ LET answered == [qLog[1] EXCEPT !.status = status]
       IN IF NeedsFallback(lib, status, hasToken)
          THEN /\ qLog' = <<answered,
                            Request(SecondaryEndpoint(lib), qLog[1].query, None, None)>>
               /\ qpc' = "fallback"
               /\ UNCHANGED qError
          ELSE /\ qLog' = <<answered>>
               /\ qError' = PrimaryErrorMessage(status)
               /\ qpc' = "thrown"
    /\ UNCHANGED <<lib, hasToken, qResult, qCalls>>
    /\ UNCHANGED notQ

\* fetchJson of the fallback request resolves
FallbackOk(rows) ==
    /\ qpc = "fallback"
    /\ qLog' = [qLog EXCEPT ![2] = [@ EXCEPT !.status = OkStatus, !.rows = rows]]
    /\ qResult' = rows
    /\ qpc' = "returned"
    /\ UNCHANGED <<lib, hasToken, qError, qCalls>>
    /\ UNCHANGED notQ

FallbackFail_Retries(status) ==
    /\ qpc = "fallback"
    /\ IF Len(qLog) < 3
       THEN /\ qLog' = Append([qLog EXCEPT ![Len(qLog)] = [@ EXCEPT !.status = status]],
                              Request(PrimaryEndpoint(lib), qLog[1].query, None, None))
            /\ qpc' = "fallback"
            /\ UNCHANGED qError
       ELSE /\ qLog' = [qLog EXCEPT ![Len(qLog)] = [@ EXCEPT !.status = status]]
            /\ qError' = CombinedErrorMessage(lib, qLog[1].status, status)
            /\ qpc' = "thrown"
    /\ UNCHANGED <<lib, hasToken, qResult, qCalls>>
    /\ UNCHANGED notQ

\* fetchJson of the fallback request throws
FallbackFail(status) ==
    /\ qpc = "fallback"
    /\ qLog' = [qLog EXCEPT ![2] = [@ EXCEPT !.status = status]]
    /\ qError' = CombinedErrorMessage(lib, qLog[1].status, status)
    /\ qpc' = "thrown"
    /\ UNCHANGED <<lib, hasToken, qResult, qCalls>>
    /\ UNCHANGED notQ

NextQuery ==
    \/ \E q \in Queries : QueryCall(q)
    \/ \E r \in RowSets : PrimaryOk(r)
    \/ \E s \in FailStatuses : PrimaryFail(s)
    \/ \E r \in RowSets : FallbackOk(r)
    \/ \E s \in FailStatuses : FallbackFail(s)

-----------------------------------------------------------------------------
(***************************************************************************)
(* Route handler: column resolver and GET                                  *)
(***************************************************************************)

\* undefined, for a value that is otherwise a string
Undefined == "<undefined>"

\* null / undefined, for a value that is otherwise a record
Null == [null |-> TRUE]

\* JS truthiness of a string-or-undefined value
Truthy(v) == v # Undefined /\ v # ""

\* a ?? b
Coalesce(a, b) == IF a = Undefined THEN b ELSE a

\* a || b
OrElse(a, b) == IF Truthy(a) THEN a ELSE b

\* SocrataColumn
Col(fieldName, name) == [fieldName |-> fieldName, name |-> name]

\* A string candidate of findColumnFromList (a key of a sample row)
Str(s) == [str |-> s]

IsString(candidate) == "str" \in DOMAIN candidate

\* The words of a column identifier or display name, lower-cased as the /i
\* flag of every pattern makes case irrelevant. No word of these names holds
\* a keyword of a pattern inside a longer word.
Words(n) ==
    CASE n \in {"tax_year", "Tax Year", "\"tax_year\""} -> <<"tax", "year">>
      [] n \in {"fiscal_year", "Fiscal Year"} -> <<"fiscal", "year">>
      [] n \in {"credit_amount_claimed", "Credit Amount Claimed"} ->
            <<"credit", "amount", "claimed">>
      [] n \in {"credit_amount_used", "Credit Amount Used"} ->
            <<"credit", "amount", "used">>
      [] n \in {"credit_name", "Credit Name"} -> <<"credit", "name">>
      [] n \in {"taxpayer_type", "Taxpayer Type"} -> <<"taxpayer", "type">>
      [] n = "yr" -> <<"yr">>
      [] OTHER -> <<>>

\* /(calendar|tax).*year/i : each alternative is the keywords that must occur
\* in this order
YEAR_REGEX == << <<"calendar", "year">>, <<"tax", "year">> >>

\* /(claimed|amount|value|approved)/i
CLAIMED_REGEX == << <<"claimed">>, <<"amount">>, <<"value">>, <<"approved">> >>

\* /(used|utilized|applied)/i
USED_REGEX == << <<"used">>, <<"utilized">>, <<"applied">> >>

\* /(program|credit.*name|credit.*type|description)/i
PROGRAM_REGEX ==
    << <<"program">>, <<"credit", "name">>, <<"credit", "type">>, <<"description">> >>

\* /(taxpayer|entity).*type/i
TAXPAYER_REGEX == << <<"taxpayer", "type">>, <<"entity", "type">> >>

\* One alternative of a pattern occurs in the words w
MatchesAlternative(w, alt) ==
    IF Len(alt) = 1
    THEN \E i \in DOMAIN w : w[i] = alt[1]
    ELSE \E i, j \in DOMAIN w : i < j /\ w[i] = alt[1] /\ w[j] = alt[2]

\* regex.test(n)
RegexTest(regex, n) ==
    \E k \in DOMAIN regex : MatchesAlternative(Words(n), regex[k])

RECURSIVE findColumnFromList(_, _)
findColumnFromList(candidates, regex) ==
    IF candidates = <<>> THEN Undefined
    ELSE LET candidate == Head(candidates)
         IN IF IsString(candidate)
            THEN IF RegexTest(regex, candidate.str) THEN candidate.str
                 ELSE findColumnFromList(Tail(candidates), regex)
            ELSE LET fieldName == Coalesce(candidate.fieldName, "")
                     name == Coalesce(candidate.name, "")
                 IN IF RegexTest(regex, fieldName) THEN fieldName
                    ELSE IF RegexTest(regex, name)
                         THEN Coalesce(candidate.fieldName, name)
                         ELSE findColumnFromList(Tail(candidates), regex)

\* ColumnMap
ColumnMap(year, claimed, used, program, taxpayerType) ==
    [year |-> year, claimed |-> claimed, used |-> used, program |-> program,
     taxpayerType |-> taxpayerType]

\* The columnMap of the metadata pass, lines 405-411
MetadataMap(columns) ==
    ColumnMap(Coalesce(findColumnFromList(columns, YEAR_REGEX), ""),
              findColumnFromList(columns, CLAIMED_REGEX),
              findColumnFromList(columns, USED_REGEX),
              findColumnFromList(columns, PROGRAM_REGEX),
              findColumnFromList(columns, TAXPAYER_REGEX))

needsFallback_YearOnly(columnMap) == ~Truthy(columnMap.year)

needsFallback_Never(columnMap) == FALSE

\* line 413
needsFallback(columnMap) ==
    \/ ~Truthy(columnMap.year)
    \/ ~Truthy(columnMap.claimed)
    \/ ~Truthy(columnMap.used)
    \/ ~Truthy(columnMap.program)

\* fallbackMap assigned over columnMap, lines 423-432
FallbackMap(columnMap, sampleColumns) ==
    ColumnMap(OrElse(OrElse(columnMap.year, findColumnFromList(sampleColumns, YEAR_REGEX)), ""),
              OrElse(columnMap.claimed, findColumnFromList(sampleColumns, CLAIMED_REGEX)),
              OrElse(columnMap.used, findColumnFromList(sampleColumns, USED_REGEX)),
              OrElse(columnMap.program, findColumnFromList(sampleColumns, PROGRAM_REGEX)),
              OrElse(columnMap.taxpayerType,
                     findColumnFromList(sampleColumns, TAXPAYER_REGEX)))

\* rawKey.replace(/"/g, "")
StripQuotes(n) == IF n = "\"tax_year\"" THEN "tax_year" ELSE n

\* `col_${index}`, index counted from 0
ColIndexKey(index) == "col_" \o ToString(index)

normalizeColumnKey(column, index) ==
    StripQuotes(OrElse(OrElse(column.fieldName, column.name), ColIndexKey(index)))

\* A row as a keyed object: its (key, value) entries in insertion order
Obj(entries) == [obj |-> entries]

\* A row as an array of values
Arr(values) == [arr |-> values]

IsObject(row) == "obj" \in DOMAIN row

\* Object.keys(row)
ObjectKeys(row) == [i \in DOMAIN row.obj |-> row.obj[i][1]]

\* record[key] = value
ObjectSet(entries, key, value) ==
    IF \E i \in DOMAIN entries : entries[i][1] = key
    THEN [i \in DOMAIN entries |->
            IF entries[i][1] = key THEN <<key, value>> ELSE entries[i]]
    ELSE Append(entries, <<key, value>>)

\* row[index], index counted from 0
ArrayAt(values, index) ==
    IF index + 1 \in DOMAIN values THEN values[index + 1] ELSE Undefined

RECURSIVE ZipRow(_, _, _, _)
\* columns.forEach((column, index) => record[key] = row[index])
ZipRow(columns, values, index, entries) ==
    IF index >= Len(columns) THEN entries
    ELSE ZipRow(columns, values, index + 1,
                ObjectSet(entries, normalizeColumnKey(columns[index + 1], index),
                          ArrayAt(values, index)))

\* mapRows, lines 455-476
mapRows(response) ==
    IF "array" \in DOMAIN response
    THEN response.array
    ELSE LET columns ==
                 IF "fetchedColumns" \in DOMAIN response.meta
                 THEN response.meta.fetchedColumns
                 ELSE IF "view" \in DOMAIN response.meta
                      THEN response.meta.view
                      ELSE <<>>
             rows == response.data
         IN [i \in DOMAIN rows |->
                IF IsObject(rows[i]) THEN rows[i]
                ELSE Obj(ZipRow(columns, rows[i].arr, 0, <<>>))]

\* Object.keys(sampleRows[0]) or [], line 421
SampleColumns(response) ==
    LET sampleRows == mapRows(response)
    IN IF Len(sampleRows) > 0
       THEN [i \in DOMAIN ObjectKeys(sampleRows[1]) |-> Str(ObjectKeys(sampleRows[1])[i])]
       ELSE <<>>

FullColumns ==
    << Col("tax_year", "Tax Year"),
       Col("credit_amount_claimed", "Credit Amount Claimed"),
       Col("credit_amount_used", "Credit Amount Used"),
       Col("credit_name", "Credit Name"),
       Col("taxpayer_type", "Taxpayer Type") >>

\* What the upstream holds: the metadata view (its columns may be missing) and
\* the answer to "SELECT * LIMIT 1"
Datasets ==
    { \* every column described; the SoQL sample row omits its null fields
      [metadata |-> [columns |-> FullColumns],
       sample |-> [array |-> << Obj(<< <<"tax_year", "2020">>,
                                       <<"credit_name", "Film">> >>) >>]],
      \* the year only by its display name; a v3 envelope with a positional row
      [metadata |-> [columns |-> << Col("yr", "Tax Year"),
                                    Col("credit_amount_claimed", Undefined) >>],
       sample |-> [meta |-> [view |-> << Col("\"tax_year\"", Undefined),
                                         Col(Undefined, "Credit Amount Claimed"),
                                         Col("credit_amount_used", Undefined),
                                         Col(Undefined, Undefined) >>],
                   data |-> << Arr(<<"2021", "100", "40", "x">>) >>]],
      \* no column that reads as a calendar or tax year
      [metadata |-> [columns |-> << Col("fiscal_year", "Fiscal Year"),
                                    Col("credit_name", "Credit Name") >>],
       sample |-> [array |-> << Obj(<< <<"fiscal_year", "2020">>,
                                       <<"credit_name", "Film">> >>) >>]] }

\* format and view of a request: the page asks for view=raw, the CSV link for
\* view=raw&format=csv, a bare request gets the defaults
RequestKinds ==
    { [format |-> "json", view |-> "agg"],
      [format |-> "json", view |-> "raw"],
      [format |-> "csv", view |-> "raw"] }

\* A request as GET receives it
NewRequest ==
    [pc |-> "new", format |-> "json", view |-> "agg",
     cachedAtStart |-> Null,   \* cachedColumnMap as getColumnMap found it
     columnMap |-> Null,       \* getColumnMap's local columnMap
     columns |-> Null,         \* what getColumnMap returned to GET
     up |-> <<>>,              \* the upstream requests made, in order
     upFailed |-> {},          \* those that failed
     pending |-> {},           \* the queries Promise.all waits for
     resp |-> Null]

\* "Unable to identify year column in Socrata dataset", line 439
YearErrorMessage == "Unable to identify year column in Socrata dataset"

\* The message of the Error a failed socrataQuery throws
QueryErrorMessage(kind) == "Socrata request failed: " \o kind

ErrorResponse_Status200(message) ==
    [status |-> 200, kind |-> "json", ok |-> FALSE, error |-> message]

\* NextResponse.json({ ok: false, error: message }, { status: 500 }), line 734
ErrorResponse(message) ==
    [status |-> 500, kind |-> "json", ok |-> FALSE, error |-> message]

\* NextResponse.json(responsePayload), lines 708-731
JsonResponse(rec) ==
    [status |-> 200, kind |-> "json", ok |-> TRUE, raw |-> rec.view = "raw"]

\* new Response(csvContent, ...), lines 586-591
CsvResponse == [status |-> 200, kind |-> "csv"]

Catch_Partial(rec, message) ==
    [rec EXCEPT !.pc = "responded", !.pending = {},
                !.resp = [status |-> 200, kind |-> "json", ok |-> TRUE,
                          raw |-> rec.view = "raw"]]

\* The catch of GET, lines 732-735
Catch(rec, message) ==
    [rec EXCEPT !.pc = "responded", !.pending = {}, !.resp = ErrorResponse(message)]

\* The queries handed to Promise.all, lines 597-630
AggregateQueries(columns) ==
    {"yearly"}
    \cup (IF Truthy(columns.program) THEN {"topPrograms", "programs"} ELSE {})
    \cup (IF Truthy(columns.taxpayerType) THEN {"taxpayerTypes"} ELSE {})

AllAggregateQueries == {"yearly", "topPrograms", "programs", "taxpayerTypes"}

\* The order Promise.all's arguments are evaluated in
AggregateOrder == <<"yearly", "topPrograms", "programs", "taxpayerTypes">>

\* GET after getColumnMap returned, up to its next await: lines 559-630
IssueQueries(rec) ==
    IF rec.format = "csv"
    THEN [rec EXCEPT !.pc = "awaitCsv", !.up = Append(@, "csv")]
    ELSE [rec EXCEPT !.pc = "awaitAggregates",
                     !.pending = AggregateQueries(rec.columns),
                     !.up = @ \o SelectSeq(AggregateOrder,
                                LAMBDA k : k \in AggregateQueries(rec.columns))]

\* if (cachedColumnMap), line 393
CacheHit(cache) == cache # Null

YearResolved_Always(columnMap) == TRUE

\* !(!columnMap.year), line 438
YearResolved(columnMap) == Truthy(columnMap.year)

SIdle ==
    /\ dataset = CHOOSE d \in Datasets : d.metadata.columns = FullColumns
    /\ cachedColumnMap = Null
    /\ req = EmptyBag

SInit ==
    /\ dataset \in Datasets
    /\ cachedColumnMap = Null
    /\ req = EmptyBag

\* The requests the server holds
Requests == BagToSet(req)

\* The request old has moved on and is now next
Step(old, next) == req' = (req (-) SetToBag({old})) (+) SetToBag({next})

FinishResolve_CachesFailure(old, rec, columnMap) ==
    /\ cachedColumnMap' = columnMap
    /\ IF YearResolved(columnMap)
       THEN Step(old, IssueQueries([rec EXCEPT !.columnMap = columnMap,
                                               !.columns = columnMap]))
       ELSE Step(old, Catch([rec EXCEPT !.columnMap = columnMap], YearErrorMessage))

\* The end of getColumnMap, lines 438-443, and GET's continuation
FinishResolve(old, rec, columnMap) ==
    IF YearResolved(columnMap)
    THEN /\ cachedColumnMap' = columnMap
         /\ Step(old, IssueQueries([rec EXCEPT !.columnMap = columnMap,
                                               !.columns = columnMap]))
    ELSE /\ Step(old, Catch([rec EXCEPT !.columnMap = columnMap], YearErrorMessage))
         /\ UNCHANGED cachedColumnMap

\* GET is entered: parseSearchParams, then getColumnMap up to its first await.
\* At most MaxRequests requests are held: a new one takes a free place, or the
\* place of a request already answered (answered = Null: a free place).
GetStart(kind, answered) ==
    /\ IF answered = Null THEN BagCardinality(req) < MaxRequests
       ELSE answered.pc = "responded" /\ BagCardinality(req) = MaxRequests
    /\ LET rec == [NewRequest EXCEPT !.format = kind.format, !.view = kind.view,
                                     !.cachedAtStart = cachedColumnMap]
           next == IF CacheHit(cachedColumnMap)
                   THEN IssueQueries([rec EXCEPT !.columns = cachedColumnMap])
                   ELSE [rec EXCEPT !.pc = "awaitMetadata", !.up = Append(@, "metadata")]
       IN req' = (IF answered = Null THEN req ELSE req (-) SetToBag({answered}))
                 (+) SetToBag({next})
    /\ UNCHANGED <<dataset, cachedColumnMap>>
    /\ UNCHANGED notS

\* fetchSocrataMetadata settles: the metadata pass, lines 397-413. A rejection
\* is caught and logged (lines 401-403) and leaves columns empty
MetadataSettle(rec, ok) ==
    /\ rec.pc = "awaitMetadata"
    /\ LET columns == IF ok /\ "columns" \in DOMAIN dataset.metadata
                      THEN dataset.metadata.columns ELSE <<>>
           columnMap == MetadataMap(columns)
           got == [rec EXCEPT !.upFailed = IF ok THEN @ ELSE @ \cup {"metadata"}]
       IN IF needsFallback(columnMap)
          THEN /\ Step(rec, [got EXCEPT !.pc = "awaitSample",
                                        !.columnMap = columnMap,
                                        !.up = Append(@, "sample")])
               /\ UNCHANGED cachedColumnMap
          ELSE FinishResolve(rec, got, columnMap)
    /\ UNCHANGED dataset
    /\ UNCHANGED notS

\* socrataQuery("SELECT * LIMIT 1") settles: lines 416-443
SampleSettle(rec, ok) ==
    /\ rec.pc = "awaitSample"
    /\ LET got == [rec EXCEPT !.upFailed = IF ok THEN @ ELSE @ \cup {"sample"}]
           columnMap == IF ok
                        THEN FallbackMap(rec.columnMap, SampleColumns(dataset.sample))
                        ELSE rec.columnMap
       IN FinishResolve(rec, got, columnMap)
    /\ UNCHANGED dataset
    /\ UNCHANGED notS

\* socrataQuery(csvQuery) settles: lines 564-592
CsvSettle(rec, ok) ==
    /\ rec.pc = "awaitCsv"
    /\ Step(rec, IF ok THEN [rec EXCEPT !.pc = "responded", !.resp = CsvResponse]
                 ELSE Catch([rec EXCEPT !.upFailed = @ \cup {"csv"}],
                            QueryErrorMessage("csv")))
    /\ UNCHANGED <<dataset, cachedColumnMap>>
    /\ UNCHANGED notS

\* await Promise.all([...]) resumes, line 619: with every result once all the
\* queries are fulfilled (rejected = None), or with the first rejection
AggregatesSettle(rec, rejected) ==
    /\ rec.pc = "awaitAggregates"
    /\ rejected \in rec.pending \cup {None}
    /\ Step(rec, IF rejected # None
                 THEN Catch([rec EXCEPT !.upFailed = @ \cup {rejected}],
                            QueryErrorMessage(rejected))
                 ELSE IF rec.view = "raw"
                      THEN [rec EXCEPT !.pending = {}, !.pc = "awaitRaw",
                                       !.up = Append(@, "raw")]
                      ELSE [rec EXCEPT !.pending = {}, !.pc = "responded",
                                       !.resp = JsonResponse(rec)])
    /\ UNCHANGED <<dataset, cachedColumnMap>>
    /\ UNCHANGED notS

\* socrataQuery(rawQuery) settles: lines 677-731
RawSettle(rec, ok) ==
    /\ rec.pc = "awaitRaw"
    /\ Step(rec, IF ok THEN [rec EXCEPT !.pc = "responded", !.resp = JsonResponse(rec)]
                 ELSE Catch([rec EXCEPT !.upFailed = @ \cup {"raw"}],
                            QueryErrorMessage("raw")))
    /\ UNCHANGED <<dataset, cachedColumnMap>>
    /\ UNCHANGED notS

NextServer ==
    \/ \E k \in RequestKinds, answered \in Requests \cup {Null} : GetStart(k, answered)
    \/ \E rec \in Requests, ok \in BOOLEAN : MetadataSettle(rec, ok)
    \/ \E rec \in Requests, ok \in BOOLEAN : SampleSettle(rec, ok)
    \/ \E rec \in Requests, ok \in BOOLEAN : CsvSettle(rec, ok)
    \/ \E rec \in Requests, k \in AllAggregateQueries \cup {None} : AggregatesSettle(rec, k)
    \/ \E rec \in Requests, ok \in BOOLEAN : RawSettle(rec, ok)

-----------------------------------------------------------------------------
(* The client page: fetchData, src/app/ny-credits/page.tsx *)

Has(record, field) == field \in DOMAIN record

\* FiltersState values the page fetches with (optional fields may be absent)
FilterChoices ==
    { [programs |-> <<>>],
      [programs |-> << <<"E", "I", "T", "C">>, <<"F", "i", "l", "m">> >>,
       yearFrom |-> 2019, yearTo |-> 2020,
       taxpayerType |-> <<"I", "n", "d", "i", "v", "i", "d", "u", "a", "l">>] }

\* A program name, a taxpayer type and the value of a URL parameter are
\* texts: sequences of one-character strings (a printed number is one piece)

\* programs.join(",")
RECURSIVE JoinComma(_)
JoinComma(programs) ==
    IF programs = <<>> THEN <<>>
    ELSE IF Len(programs) = 1 THEN programs[1]
    ELSE programs[1] \o <<",">> \o JoinComma(Tail(programs))

\* The URLSearchParams fetchData builds, lines 87-92
BuildParams(filters) ==
    <<>> \o << <<"view", <<"raw">>>> >>
         \o (IF Has(filters, "yearFrom")
             THEN << <<"year_from", <<ToString(filters.yearFrom)>>>> >> ELSE <<>>)
         \o (IF Has(filters, "yearTo")
             THEN << <<"year_to", <<ToString(filters.yearTo)>>>> >> ELSE <<>>)
         \o (IF Len(filters.programs) > 0
             THEN << <<"program", JoinComma(filters.programs)>> >> ELSE <<>>)
         \o (IF Has(filters, "taxpayerType") /\ filters.taxpayerType # <<>>
             THEN << <<"taxpayer_type", filters.taxpayerType>> >> ELSE <<>>)

\* What fetch() settles with: a Response, or a rejection
FetchOutcomes ==
    { [kind |-> "response", status |-> 200],
      [kind |-> "response", status |-> 500],
      [kind |-> "reject", name |-> "TypeError", message |-> "Failed to fetch"],
      [kind |-> "reject", name |-> "AbortError", message |-> "The operation was aborted."] }

\* What response.json() settles with: the body, or a rejection
JsonOutcomes ==
    { [kind |-> "json", json |-> [ok |-> TRUE, meta |-> [years |-> <<2019, 2020>>]]],
      [kind |-> "json", json |-> [ok |-> FALSE, error |-> "Unknown error"]],
      [kind |-> "reject", name |-> "SyntaxError", message |-> "Unexpected token"],
      [kind |-> "reject", name |-> "AbortError", message |-> "The operation was aborted."] }

\* response.ok
ResponseOk(response) == response.status >= 200 /\ response.status <= 299

\* new Error(`Request failed (${response.status})`), line 105
RequestFailedError(response) ==
    [name |-> "Error", message |-> "Request failed (" \o ToString(response.status) \o ")"]

\* new Error("API returned an error response"), line 109
ApiError == [name |-> "Error", message |-> "API returned an error response"]

\* isAbortError, lines 116-118
isAbortError(err) == err.name = "AbortError"

DiscardResult_Never(call) == FALSE

\* if (controller.signal.aborted) return, lines 111-113
DiscardResult(call) == call.aborted

\* if (isAbortError || controller.signal.aborted) return, lines 119-121
DiscardError(err, call) == isAbortError(err) \/ call.aborted

\* One fetchData call: its controller's signal and where it stands
NewCall(filters) ==
    [pc |-> "awaitFetch", aborted |-> FALSE, params |-> BuildParams(filters),
     outcome |-> Null]

\* useRef<AbortController | null>(null), line 84: no controller is current
NoController == 0

\* useState<string | null>(null), line 79, and setError(null), line 99: the
\* error is a message, or this
NoError == "<null>"

\* useState<FiltersState>({ programs: [] }), lines 80-81; no effect is due
FIdle ==
    /\ appliedFilters = [programs |-> <<>>]
    /\ draftFilters = [programs |-> <<>>]
    /\ effects = {}
    /\ untouched = TRUE

PIdle ==
    /\ mounted = FALSE
    /\ calls = <<>>
    /\ abortControllerRef = NoController
    /\ data = Null
    /\ loading = FALSE
    /\ error = NoError
    /\ setLog = <<>>
    /\ FIdle

\* The component is rendered for the first time: useState / useRef, lines 77-84
PInit ==
    /\ mounted = TRUE
    /\ calls = <<>>
    /\ abortControllerRef = NoController
    /\ data = Null
    /\ loading = FALSE
    /\ error = NoError
    /\ setLog = <<>>
    /\ FIdle

\* A call of a state setter by the fetchData call c, while latest was the
\* newest fetchData call
SetterCall(c, setter) == [call |-> c, setter |-> setter, latest |-> Len(calls)]

\* abortControllerRef.current?.abort()
AbortCurrent(cs) ==
    IF abortControllerRef = NoController THEN cs
    ELSE [cs EXCEPT ![abortControllerRef].aborted = TRUE]

Finally_AlwaysClears(c, cs, log) ==
    /\ loading' = FALSE
    /\ setLog' = Append(log, SetterCall(c, "setLoading"))
    /\ abortControllerRef' = IF abortControllerRef = c THEN NoController
                             ELSE abortControllerRef
    /\ calls' = [cs EXCEPT ![c].pc = "done"]

\* finally, lines 122-129; log is the setter calls up to here
Finally(c, cs, log) ==
    /\ loading' = IF ~cs[c].aborted THEN FALSE ELSE loading
    /\ setLog' = IF ~cs[c].aborted THEN Append(log, SetterCall(c, "setLoading"))
                 ELSE log
    /\ abortControllerRef' = IF abortControllerRef = c THEN NoController
                             ELSE abortControllerRef
    /\ calls' = [cs EXCEPT ![c].pc = "done"]

\* catch (err), lines 115-121, then finally
CatchFetchError(c, cs, err) ==
    /\ IF DiscardError(err, cs[c])
       THEN /\ error' = error
            /\ Finally(c, cs, setLog)
       ELSE /\ error' = err.message
            /\ Finally(c, cs, Append(setLog, SetterCall(c, "setError")))
    /\ UNCHANGED data

\* fetchData is called (by the effect on appliedFilters, lines 133-135) and
\* runs to its first await: lines 86-103
fetchData(filters) ==
    /\ mounted
    /\ Len(calls) < MaxFetches
    /\ LET c == Len(calls) + 1
       IN /\ calls' = Append(AbortCurrent(calls), NewCall(filters))
          /\ abortControllerRef' = c
          /\ loading' = TRUE
          /\ error' = NoError
          /\ setLog' = setLog \o << [call |-> c, setter |-> "setLoading", latest |-> c],
                                    [call |-> c, setter |-> "setError", latest |-> c] >>
    /\ UNCHANGED <<mounted, data>>

\* The effect on appliedFilters runs with some filters
FetchData(filters) == fetchData(filters) /\ UNCHANGED fvars /\ UNCHANGED notP

\* An AbortError is only raised on an aborted signal; an aborted request may
\* still settle as if it had not been aborted (it had completed already)
CanSettle(call, outcome) ==
    (outcome.kind = "reject" /\ outcome.name = "AbortError") => call.aborted

\* await fetch(...) settles: lines 101-106
AwaitFetch(c, outcome) ==
    /\ c \in DOMAIN calls
    /\ calls[c].pc = "awaitFetch"
    /\ CanSettle(calls[c], outcome)
    /\ LET cs == [calls EXCEPT ![c].outcome = outcome]
       IN IF outcome.kind = "reject" THEN CatchFetchError(c, cs, outcome)
          ELSE IF ~ResponseOk(outcome)
               THEN CatchFetchError(c, cs, RequestFailedError(outcome))
               ELSE /\ calls' = [cs EXCEPT ![c].pc = "awaitJson"]
                    /\ UNCHANGED <<abortControllerRef, data, loading, error, setLog>>
    /\ UNCHANGED mounted

FetchSettle(c, outcome) == AwaitFetch(c, outcome) /\ UNCHANGED fvars /\ UNCHANGED notP

\* await response.json() settles: lines 107-114
AwaitJson(c, outcome) ==
    /\ c \in DOMAIN calls
    /\ calls[c].pc = "awaitJson"
    /\ CanSettle(calls[c], outcome)
    /\ LET cs == [calls EXCEPT ![c].outcome = outcome]
       IN IF outcome.kind = "reject" THEN CatchFetchError(c, cs, outcome)
          ELSE IF ~outcome.json.ok THEN CatchFetchError(c, cs, ApiError)
          ELSE IF DiscardResult(cs[c])
               THEN /\ UNCHANGED <<data, error>>
                    /\ Finally(c, cs, setLog)
               ELSE /\ data' = outcome.json
                    /\ error' = error
                    /\ Finally(c, cs, Append(setLog, SetterCall(c, "setData")))
    /\ UNCHANGED mounted

JsonSettle(c, outcome) == AwaitJson(c, outcome) /\ UNCHANGED fvars /\ UNCHANGED notP

\* The cleanup of the unmount effect, lines 137-143
Cleanup ==
    /\ mounted
    /\ mounted' = FALSE
    /\ calls' = AbortCurrent(calls)
    /\ abortControllerRef' = NoController
    /\ UNCHANGED <<data, loading, error, setLog>>

\* The page is unmounted
Unmount == Cleanup /\ UNCHANGED fvars /\ UNCHANGED notP

NextPage ==
    \/ \E filters \in FilterChoices : FetchData(filters)
    \/ \E c \in 1..MaxFetches, outcome \in FetchOutcomes : FetchSettle(c, outcome)
    \/ \E c \in 1..MaxFetches, outcome \in JsonOutcomes : JsonSettle(c, outcome)
    \/ Unmount

-----------------------------------------------------------------------------
(* The client page with its filters and effects, page.tsx lines 76-192,    *)
(* 278-286 and 308-340. A handler or a settling promise sets state; React  *)
(* renders and then runs the effects whose dependencies changed, before    *)
(* the next event is handled.                                              *)

\* { ...filters, [field]: value }
With(filters, field, value) == (field :> value) @@ filters

\* { ...filters, [field]: undefined }
Without(filters, field) == [f \in DOMAIN filters \ {field} |-> filters[f]]

\* The meta.years of the responses: a contiguous range, or empty
YearLists == { <<>>, <<2019, 2020>> }

\* What fetch() settles with on the page with filters: a response
PageFetchOutcomes == { outcome \in FetchOutcomes : outcome.kind = "response" }

\* What response.json() settles with on the page with filters: a body
PageJsonOutcomes ==
    { outcome \in JsonOutcomes : outcome.kind = "json" } \cup
    { [kind |-> "json", json |-> [ok |-> TRUE, meta |-> [years |-> years]]] :
        years \in YearLists }

\* What the user can select in the program list, lines 278-281
ProgramSelections == { <<>>, << <<"E", "I", "T", "C">> >> }

\* The component is rendered for the first time and its effects are due
FInit ==
    /\ mounted = TRUE
    /\ calls = <<>>
    /\ abortControllerRef = NoController
    /\ data = Null
    /\ loading = FALSE
    /\ error = NoError
    /\ setLog = <<>>
    /\ appliedFilters = [programs |-> <<>>]
    /\ draftFilters = [programs |-> <<>>]
    /\ effects = {"fetch", "defaultYears"}
    /\ untouched = TRUE

\* useEffect(() => { fetchData(appliedFilters) }, [fetchData, appliedFilters]),
\* lines 133-135
FetchEffect ==
    /\ "fetch" \in effects
    /\ fetchData(appliedFilters)
    /\ effects' = effects \ {"fetch"}
    /\ UNCHANGED <<appliedFilters, draftFilters, untouched>>
    /\ UNCHANGED notP

\* data?.meta?.years?.length, line 146
HasYears(json) == json # Null /\ Len(json.meta.years) > 0

\* data?.meta.years[0], data?.meta.years[data.meta.years.length - 1]:
\* the filters with the default years, where there are any
WithDefaultYears(filters, json) ==
    IF HasYears(json)
    THEN With(With(filters, "yearFrom", json.meta.years[1]),
              "yearTo", json.meta.years[Len(json.meta.years)])
    ELSE filters

\* prev.yearFrom ?? defaultFrom, prev.yearTo ?? defaultTo: lines 149-153
DefaultDraft(prev, json) ==
    With(With(prev, "yearFrom",
              IF Has(prev, "yearFrom") THEN prev.yearFrom ELSE json.meta.years[1]),
         "yearTo",
         IF Has(prev, "yearTo") THEN prev.yearTo ELSE json.meta.years[Len(json.meta.years)])

DefaultApplied_AlwaysFresh(prev, json) ==
    [filters |-> IF ~Has(prev, "yearFrom") /\ ~Has(prev, "yearTo")
                 THEN WithDefaultYears(prev, json) ELSE prev,
     fresh |-> TRUE]

\* The updater of setAppliedFilters, lines 154-159: the next value, and
\* whether it is a new object (React renders again only for a new one)
DefaultApplied(prev, json) ==
    IF ~Has(prev, "yearFrom") /\ ~Has(prev, "yearTo")
    THEN [filters |-> WithDefaultYears(prev, json), fresh |-> TRUE]
    ELSE [filters |-> prev, fresh |-> FALSE]

\* The effect on data?.meta?.years, lines 145-161; it runs after the fetch
\* effect when both are due
DefaultYearsEffect ==
    /\ mounted
    /\ effects = {"defaultYears"}
    /\ IF HasYears(data)
       THEN LET next == DefaultApplied(appliedFilters, data)
            IN /\ next.fresh => Len(calls) < MaxFetches
               /\ draftFilters' = DefaultDraft(draftFilters, data)
               /\ appliedFilters' = next.filters
               /\ effects' = IF next.fresh THEN {"fetch"} ELSE {}
       ELSE /\ UNCHANGED <<appliedFilters, draftFilters>>
            /\ effects' = {}
    /\ UNCHANGED <<mounted, calls, abortControllerRef, data, loading, error, setLog,
                   untouched>>
    /\ UNCHANGED notP

\* A fetch or a body that is not a success
Failure(outcome) ==
    \/ outcome.kind = "reject"
    \/ outcome.kind = "response" /\ ~ResponseOk(outcome)
    \/ outcome.kind = "json" /\ ~outcome.json.ok

\* await fetch(...) settles on the page with filters
PageFetchSettle(c, outcome) ==
    /\ effects = {}
    /\ AwaitFetch(c, outcome)
    /\ untouched' = (untouched /\ ~Failure(outcome))
    /\ UNCHANGED <<appliedFilters, draftFilters, effects>>
    /\ UNCHANGED notP

\* await response.json() settles; setData(json) gives data.meta.years a new
\* value, so that the effect of lines 145-161 is due
PageJsonSettle(c, outcome) ==
    /\ effects = {}
    /\ AwaitJson(c, outcome)
    /\ effects' = IF \E i \in (Len(setLog) + 1)..Len(setLog') :
                        setLog'[i].setter = "setData"
                  THEN {"defaultYears"} ELSE {}
    /\ untouched' = (untouched /\ ~Failure(outcome))
    /\ UNCHANGED <<appliedFilters, draftFilters>>
    /\ UNCHANGED notP

\* Number(event.target.value) || undefined, lines 313 and 332
SelectYear(field, value) ==
    /\ mounted
    /\ effects = {}
    /\ data # Null
    /\ \E i \in DOMAIN data.meta.years : data.meta.years[i] = value
    /\ draftFilters' = IF value = 0 THEN Without(draftFilters, field)
                       ELSE With(draftFilters, field, value)
    /\ untouched' = FALSE
    /\ UNCHANGED <<mounted, calls, abortControllerRef, data, loading, error, setLog,
                   appliedFilters, effects>>
    /\ UNCHANGED notP

\* handleProgramSelection, lines 278-281
handleProgramSelection(options) ==
    /\ mounted
    /\ effects = {}
    /\ draftFilters' = With(draftFilters, "programs", options)
    /\ untouched' = FALSE
    /\ UNCHANGED <<mounted, calls, abortControllerRef, data, loading, error, setLog,
                   appliedFilters, effects>>
    /\ UNCHANGED notP

\* "Year from cannot exceed year to", line 169
YearOrderMessage == "Year from cannot exceed year to"

YearsReversed_Never(filters) == FALSE

\* draftFilters.yearFrom && draftFilters.yearTo &&
\* draftFilters.yearFrom > draftFilters.yearTo, line 168
YearsReversed(filters) ==
    /\ Has(filters, "yearFrom") /\ filters.yearFrom # 0
    /\ Has(filters, "yearTo") /\ filters.yearTo # 0
    /\ filters.yearFrom > filters.yearTo

\* onApplyFilters, lines 167-178: the new appliedFilters has the four fields
\* of draftFilters
onApplyFilters ==
    /\ mounted
    /\ effects = {}
    /\ Len(calls) < MaxFetches
    /\ IF YearsReversed(draftFilters)
       THEN /\ error' = YearOrderMessage
            /\ UNCHANGED <<appliedFilters, effects>>
       ELSE /\ appliedFilters' = draftFilters
            /\ effects' = {"fetch"}
            /\ UNCHANGED error
    /\ untouched' = FALSE
    /\ UNCHANGED <<mounted, calls, abortControllerRef, data, loading, setLog,
                   draftFilters>>
    /\ UNCHANGED notP

\* onResetFilters, lines 180-192
onResetFilters ==
    /\ mounted
    /\ effects = {}
    /\ Len(calls) < MaxFetches
    /\ LET resetFilters == WithDefaultYears([programs |-> <<>>], data)
       IN /\ draftFilters' = resetFilters
          /\ appliedFilters' = resetFilters
    /\ effects' = {"fetch"}
    /\ untouched' = FALSE
    /\ UNCHANGED <<mounted, calls, abortControllerRef, data, loading, error, setLog>>
    /\ UNCHANGED notP

\* The page is unmounted: no effect runs any more
PageUnmount ==
    /\ Cleanup
    /\ effects' = {}
    /\ UNCHANGED <<appliedFilters, draftFilters, untouched>>
    /\ UNCHANGED notP

NextFilters ==
    \/ FetchEffect
    \/ DefaultYearsEffect
    \/ \E c \in 1..MaxFetches, outcome \in PageFetchOutcomes : PageFetchSettle(c, outcome)
    \/ \E c \in 1..MaxFetches, outcome \in PageJsonOutcomes : PageJsonSettle(c, outcome)
    \/ \E field \in {"yearFrom", "yearTo"}, value \in 2019..2020 : SelectYear(field, value)
    \/ \E options \in ProgramSelections : handleProgramSelection(options)
    \/ onApplyFilters
    \/ onResetFilters
    \/ PageUnmount

-----------------------------------------------------------------------------
(***************************************************************************)
(* Route handler: queries and response payload of GET                      *)
(***************************************************************************)

\* JS values of upstream rows: strings Str(s), numbers Num(n), NaN, null
\* (Null) and undefined. Numbers are integers here; a quotient is a Ratio.
Num(n) == [num |-> n]

NaN == [nan |-> TRUE]

UndefinedValue == [undefined |-> TRUE]

IsNumber(v) == "num" \in DOMAIN v

\* value === null || value === undefined
IsNullish(v) == v = Null \/ v = UndefinedValue

\* a ?? b on row values
CoalesceValue(a, b) == IF IsNullish(a) THEN b ELSE a

\* row[key]
Get(row, key) ==
    IF \E i \in DOMAIN row.obj : row.obj[i][1] = key
    THEN row.obj[CHOOSE i \in DOMAIN row.obj : row.obj[i][1] = key][2]
    ELSE UndefinedValue

\* The decimal integer literals among the strings of the upstream rows
DecimalStrings ==
    ("0" :> 0) @@ ("40" :> 40) @@ ("50" :> 50) @@ ("100" :> 100) @@ ("-5" :> -5)
    @@ ("2018" :> 2018) @@ ("2019" :> 2019) @@ ("2020" :> 2020) @@ ("2021" :> 2021)

\* The strings of the upstream rows that start with a decimal integer and go on
LeadingDecimalStrings == ("2020 (est)" :> 2020)

\* String(value)
StringOf(v) ==
    IF v = UndefinedValue THEN "undefined"
    ELSE IF v = Null THEN "null"
    ELSE IF v = NaN THEN "NaN"
    ELSE IF IsNumber(v) THEN ToString(v.num)
    ELSE v.str

\* Number.parseInt(s, 10): the longest leading decimal integer, or NaN
parseInt(s) ==
    IF s \in DOMAIN DecimalStrings THEN Num(DecimalStrings[s])
    ELSE IF s \in DOMAIN LeadingDecimalStrings THEN Num(LeadingDecimalStrings[s])
    ELSE NaN

\* Number(value) of a value that is not null or undefined
NumberOf(v) ==
    IF v = NaN THEN NaN
    ELSE IF IsNumber(v) THEN v
    ELSE IF v.str = "" THEN Num(0)
    ELSE IF v.str \in DOMAIN DecimalStrings THEN Num(DecimalStrings[v.str])
    ELSE NaN

\* Number.isFinite(num)
IsFinite(v) == IsNumber(v)

\* toNumber, lines 534-538
toNumber(value) ==
    IF IsNullish(value) THEN Num(0)
    ELSE LET num == NumberOf(value)
         IN IF IsFinite(num) THEN num ELSE Num(0)

RECURSIVE Gcd(_, _)
Gcd(a, b) == IF b = 0 THEN a ELSE Gcd(b, a % b)

Abs(n) == IF n < 0 THEN -n ELSE n

\* The number n / d, d # 0, in lowest terms
Ratio(n, d) ==
    LET g == Gcd(Abs(n), Abs(d))
        s == IF d < 0 THEN -1 ELSE 1
    IN [p |-> s * (n \div g), q |-> s * (d \div g)]

computeUtilization_Unscaled(claimed, used) ==
    IF claimed.num = 0 THEN Ratio(0, 1) ELSE Ratio(used.num, claimed.num)

\* computeUtilization, lines 540-543; claimed and used come from toNumber
computeUtilization(claimed, used) ==
    IF claimed.num = 0 THEN Ratio(0, 1)
    ELSE Ratio(used.num * 100, claimed.num)

\* The first revision's findColumn, lines 41-47: the fieldName of the first
\* column whose fieldName or name matches
findColumn(columns, regex) ==
    LET hits == {i \in DOMAIN columns :
                    \/ RegexTest(regex, Coalesce(columns[i].fieldName, ""))
                    \/ RegexTest(regex, Coalesce(columns[i].name, ""))}
    IN IF hits = {} THEN Undefined
       ELSE columns[CHOOSE i \in hits : \A j \in hits : i <= j].fieldName

\* response.meta?.view?.columns ?? [], line 39
ViewColumns(response) ==
    IF "meta" \in DOMAIN response /\ "view" \in DOMAIN response.meta
    THEN response.meta.view ELSE <<>>

\* What getColumnMap ends with: the mapping it returns, or the message of the
\* Error it throws
Returned(columnMap) == [ok |-> TRUE, columns |-> columnMap]

Thrown(message) == [ok |-> FALSE, error |-> message]

\* getColumnMap of the first revision, lines 33-68, over the answer to
\* "SELECT * LIMIT 1"
getColumnMapFirst(response) ==
    LET columns == ViewColumns(response)
        columnMap == ColumnMap(Coalesce(findColumn(columns, YEAR_REGEX), ""),
                               findColumn(columns, CLAIMED_REGEX),
                               findColumn(columns, USED_REGEX),
                               findColumn(columns, PROGRAM_REGEX),
                               findColumn(columns, TAXPAYER_REGEX))
    IN IF ~Truthy(columnMap.year)
       THEN Thrown("Unable to identify year column in Socrata dataset")
       ELSE IF ~Truthy(columnMap.claimed)
       THEN Thrown("Unable to identify claimed amount column in Socrata dataset")
       ELSE IF ~Truthy(columnMap.program)
       THEN Thrown("Unable to identify program column in Socrata dataset")
       ELSE Returned(columnMap)

\* getColumnMap of the second revision, lines 392-444, when the metadata
\* request and the sample query both succeed
getColumnMapSecond(ds) ==
    LET columns == IF "columns" \in DOMAIN ds.metadata THEN ds.metadata.columns ELSE <<>>
        metadataMap == MetadataMap(columns)
        columnMap == IF needsFallback(metadataMap)
                     THEN FallbackMap(metadataMap, SampleColumns(ds.sample))
                     ELSE metadataMap
    IN IF YearResolved(columnMap) THEN Returned(columnMap)
       ELSE Thrown(YearErrorMessage)

\* The revisions of the route handler kept in route.ts
Routes == {"first", "second"}

getColumnMapOf(route, ds) ==
    IF route = "first" THEN getColumnMapFirst(ds.sample) ELSE getColumnMapSecond(ds)

\* A text the handler works on character by character is a sequence of
\* pieces: one string per character, except that a column name and a printed
\* number are one piece each. Text(pieces) is the string the pieces spell.
RECURSIVE Text(_)
Text(pieces) == IF pieces = <<>> THEN "" ELSE pieces[1] \o Text(Tail(pieces))

sanitizeValue_Unescaped(value) == value

\* sanitizeValue, lines 446-448: value.replace(/'/g, "''")
RECURSIVE sanitizeValue(_)
sanitizeValue(value) ==
    IF value = <<>> THEN <<>>
    ELSE (IF value[1] = "'" THEN <<"'", "'">> ELSE <<value[1]>>)
         \o sanitizeValue(Tail(value))

\* array.join(separator), of strings
RECURSIVE Join(_, _)
Join(strings, separator) ==
    IF strings = <<>> THEN ""
    ELSE IF Len(strings) = 1 THEN strings[1]
    ELSE strings[1] \o separator \o Join(Tail(strings), separator)

\* array.join(separator), of texts
RECURSIVE JoinTexts(_, _)
JoinTexts(texts, separator) ==
    IF texts = <<>> THEN <<>>
    ELSE IF Len(texts) = 1 THEN texts[1]
    ELSE texts[1] \o separator \o JoinTexts(Tail(texts), separator)

Quoted(name) == "\"" \o name \o "\""

\* `"${column}"` as pieces
QuotedName(name) == <<"\"", name, "\"">>

\* `${number}` in a template string
NumberText(value) == IF IsNumber(value) THEN ToString(value.num) ELSE "NaN"

\* `'${sanitizeValue(value)}'`
Literal(value) == <<"'">> \o sanitizeValue(value) \o <<"'">>

buildWhereClauses_IgnoresColumns(params, columns) ==
    (IF Has(params, "yearFrom")
     THEN << QuotedName(columns.year) \o <<" ", ">", "=", " ", NumberText(params.yearFrom)>> >>
     ELSE <<>>)
    \o (IF Has(params, "yearTo")
        THEN << QuotedName(columns.year)
                \o <<" ", "<", "=", " ", NumberText(params.yearTo)>> >>
        ELSE <<>>)
    \o (IF Has(params, "program") /\ Len(params.program) > 0
        THEN << QuotedName(columns.program) \o <<" ", "I", "N", " ", "(">>
                \o JoinTexts([i \in DOMAIN params.program |-> Literal(params.program[i])],
                             <<",", " ">>)
                \o <<")">> >>
        ELSE <<>>)
    \o (IF Has(params, "taxpayerType") /\ params.taxpayerType # <<>>
        THEN << QuotedName(columns.taxpayerType) \o <<" ", "=", " ">>
                \o Literal(params.taxpayerType) >>
        ELSE <<>>)

\* buildWhereClauses, lines 511-527: the clauses, each a text
buildWhereClauses(params, columns) ==
    (IF Has(params, "yearFrom")
     THEN << QuotedName(columns.year) \o <<" ", ">", "=", " ", NumberText(params.yearFrom)>> >>
     ELSE <<>>)
    \o (IF Has(params, "yearTo")
        THEN << QuotedName(columns.year)
                \o <<" ", "<", "=", " ", NumberText(params.yearTo)>> >>
        ELSE <<>>)
    \o (IF Has(params, "program") /\ Len(params.program) > 0 /\ Truthy(columns.program)
        THEN << QuotedName(columns.program) \o <<" ", "I", "N", " ", "(">>
                \o JoinTexts([i \in DOMAIN params.program |-> Literal(params.program[i])],
                             <<",", " ">>)
                \o <<")">> >>
        ELSE <<>>)
    \o (IF Has(params, "taxpayerType") /\ params.taxpayerType # <<>>
           /\ Truthy(columns.taxpayerType)
        THEN << QuotedName(columns.taxpayerType) \o <<" ", "=", " ">>
                \o Literal(params.taxpayerType) >>
        ELSE <<>>)

\* buildWhere, lines 529-532, as a text
buildWhereText(params, columns) ==
    LET clauses == buildWhereClauses(params, columns)
    IN IF Len(clauses) > 0
       THEN <<"W", "H", "E", "R", "E", " ">>
            \o JoinTexts(clauses, <<" ", "A", "N", "D", " ">>)
       ELSE <<>>

\* buildWhere, lines 529-532: the predicate string
buildWhere(params, columns) == Text(buildWhereText(params, columns))

\* buildRawSelect, lines 545-552
buildRawSelect(columns) ==
    LET claimedExpr == IF Truthy(columns.claimed) THEN Quoted(columns.claimed) ELSE "0"
        usedExpr == IF Truthy(columns.used) THEN Quoted(columns.used) ELSE "0"
        programExpr == IF Truthy(columns.program) THEN Quoted(columns.program) ELSE "NULL"
        taxpayerExpr == IF Truthy(columns.taxpayerType)
                        THEN Quoted(columns.taxpayerType) ELSE "NULL"
    IN "SELECT " \o Quoted(columns.year) \o " AS year, " \o programExpr
       \o " AS program, " \o claimedExpr \o " AS claimed, " \o usedExpr
       \o " AS used, " \o taxpayerExpr \o " AS taxpayer_type"

\* COALESCE("column", 0) or 0, lines 594-595
SumExpr(column) ==
    IF Truthy(column) THEN "COALESCE(" \o Quoted(column) \o ", 0)" ELSE "0"

\* The query strings GET builds for a JSON response, lines 559-617 and 675-676;
\* a query that is not made is Undefined
BuildQueryStrings(params, columns) ==
    LET whereClause == buildWhere(params, columns)
        claimedExpr == SumExpr(columns.claimed)
        usedExpr == SumExpr(columns.used)
    IN [yearly |-> "SELECT " \o Quoted(columns.year) \o " AS year, SUM(" \o claimedExpr
                   \o ") AS claimed, SUM(" \o usedExpr \o ") AS used " \o whereClause
                   \o " GROUP BY " \o Quoted(columns.year)
                   \o " ORDER BY " \o Quoted(columns.year),
        topPrograms |->
            IF Truthy(columns.program)
            THEN "SELECT " \o Quoted(columns.program) \o " AS program, SUM("
                 \o claimedExpr \o ") AS claimed " \o whereClause \o " GROUP BY "
                 \o Quoted(columns.program) \o " ORDER BY claimed DESC LIMIT 10"
            ELSE Undefined,
        programs |->
            IF Truthy(columns.program)
            THEN "SELECT DISTINCT " \o Quoted(columns.program) \o " AS program "
                 \o whereClause \o " ORDER BY program"
            ELSE Undefined,
        taxpayerTypes |->
            IF Truthy(columns.taxpayerType)
            THEN "SELECT DISTINCT " \o Quoted(columns.taxpayerType)
                 \o " AS taxpayer_type " \o whereClause \o " ORDER BY taxpayer_type"
            ELSE Undefined,
        raw |->
            IF params.view = "raw"
            THEN buildRawSelect(columns) \o " " \o whereClause \o " ORDER BY "
                 \o Quoted(columns.year) \o " DESC LIMIT 50000"
            ELSE Undefined]

\* row.alias ?? (column ? row[column] : undefined)
AliasOrColumn(row, alias, column) ==
    CoalesceValue(Get(row, alias),
                  IF Truthy(column) THEN Get(row, column) ELSE UndefinedValue)

\* One element of yearlyRows, lines 632-645
YearlyRow(row, columns) ==
    LET yearValue == CoalesceValue(Get(row, "year"), Get(row, columns.year))
        claimedValue == CoalesceValue(Get(row, "claimed"),
                                      Get(row, Coalesce(columns.claimed, "claimed")))
        usedValue == CoalesceValue(Get(row, "used"),
                                   Get(row, Coalesce(columns.used, "used")))
        claimed == toNumber(claimedValue)
        used == toNumber(usedValue)
    IN [year |-> parseInt(StringOf(yearValue)),
        claimed |-> claimed,
        used |-> used,
        utilizationPct |-> computeUtilization(claimed, used)]

\* One element of rawRows, lines 678-695
RawRow(row, columns) ==
    LET claimed == toNumber(AliasOrColumn(row, "claimed", columns.claimed))
        used == toNumber(AliasOrColumn(row, "used", columns.used))
    IN [year |-> CoalesceValue(Get(row, "year"), Get(row, columns.year)),
        program |-> AliasOrColumn(row, "program", columns.program),
        claimed |-> claimed,
        used |-> used,
        taxpayer_type |-> AliasOrColumn(row, "taxpayer_type", columns.taxpayerType),
        utilizationPct |-> computeUtilization(claimed, used)]

\* One element of topPrograms, lines 653-658
TopProgramRow(row, columns) ==
    [program |-> CoalesceValue(AliasOrColumn(row, "program", columns.program),
                               Str("Unknown")),
     claimed |-> toNumber(AliasOrColumn(row, "claimed", columns.claimed))]

\* array.map(f)
Map(rows, f(_)) == [i \in DOMAIN rows |-> f(rows[i])]

\* .filter((value) => value !== null && value !== undefined && value !== "")
IsOption(value) == ~IsNullish(value) /\ value # Str("")

\* Inserts row after the rows of sorted whose year is not greater
RECURSIVE InsertByYear(_, _)
InsertByYear(sorted, row) ==
    IF sorted = <<>> THEN <<row>>
    ELSE IF Head(sorted).year.num <= row.year.num
         THEN <<Head(sorted)>> \o InsertByYear(Tail(sorted), row)
         ELSE <<row>> \o sorted

\* The stable sort by (a, b) => a.year - b.year of rows whose years are numbers
RECURSIVE SortByYear(_)
SortByYear(rows) ==
    IF rows = <<>> THEN <<>>
    ELSE InsertByYear(SortByYear(SubSeq(rows, 1, Len(rows) - 1)), rows[Len(rows)])

\* yearlyRows.sort((a, b) => a.year - b.year), line 647. With a NaN year the
\* comparator is not consistent and the order is implementation-defined: any
\* arrangement of the rows
SortOutcomes(rows) ==
    IF \A i \in DOMAIN rows : IsNumber(rows[i].year)
    THEN {SortByYear(rows)}
    ELSE {[i \in DOMAIN rows |-> rows[p[i]]] : p \in Permutations(DOMAIN rows)}

\* rows.reduce((sum, row) => sum + row[field], 0), lines 649-650
RECURSIVE SumOf(_, _)
SumOf(rows, field) ==
    IF rows = <<>> THEN 0
    ELSE rows[1][field].num + SumOf(Tail(rows), field)

\* Math.min(...years) / Math.max(...years)
MinOf(numbers) == CHOOSE n \in numbers : \A m \in numbers : n <= m

MaxOf(numbers) == CHOOSE n \in numbers : \A m \in numbers : n >= m

YearRange_Endpoints(yearlyRows) ==
    LET years == {yearlyRows[i].year.num :
                    i \in {j \in DOMAIN yearlyRows : IsFinite(yearlyRows[j].year)}}
    IN IF years = {} THEN <<>>
       ELSE IF MinOf(years) = MaxOf(years) THEN <<Num(MinOf(years))>>
       ELSE <<Num(MinOf(years)), Num(MaxOf(years))>>

\* yearRange, lines 697-706
YearRange(yearlyRows) ==
    LET years == {yearlyRows[i].year.num :
                    i \in {j \in DOMAIN yearlyRows : IsFinite(yearlyRows[j].year)}}
    IN IF years = {} THEN <<>>
       ELSE [i \in 1..(MaxOf(years) - MinOf(years) + 1) |-> Num(MinOf(years) + i - 1)]

TotalOf_SkipsFirst(rows, field) == SumOf(SubSeq(rows, 2, Len(rows)), field)

\* totalClaimed, totalUsed: lines 649-650
TotalOf(rows, field) == SumOf(rows, field)

\* responsePayload, lines 649-729, from the sorted yearlyRows and the answers
\* of the other queries (Null: the query was not made)
ResponsePayload(params, columns, yearlyRows, responses) ==
    LET totalClaimed == Num(TotalOf(yearlyRows, "claimed"))
        totalUsed == Num(TotalOf(yearlyRows, "used"))
        topProgramRows == IF responses.topPrograms # Null
                          THEN mapRows(responses.topPrograms) ELSE <<>>
        Top(row) == TopProgramRow(row, columns)
        Program(row) == AliasOrColumn(row, "program", columns.program)
        Taxpayer(row) == AliasOrColumn(row, "taxpayer_type", columns.taxpayerType)
        Raw(row) == RawRow(row, columns)
    IN [ok |-> TRUE,
        meta |-> [years |-> YearRange(yearlyRows),
                  programs |->
                      IF responses.programs # Null
                      THEN SelectSeq(Map(mapRows(responses.programs), Program), IsOption)
                      ELSE <<>>,
                  taxpayerTypes |->
                      IF responses.taxpayerTypes # Null
                      THEN SelectSeq(Map(mapRows(responses.taxpayerTypes), Taxpayer),
                                     IsOption)
                      ELSE <<>>,
                  filters |->
                      [year_from |-> IF Has(params, "yearFrom")
                                     THEN params.yearFrom ELSE Null,
                       year_to |-> IF Has(params, "yearTo")
                                   THEN params.yearTo ELSE Null,
                       program |-> IF Has(params, "program") THEN params.program
                                   ELSE <<>>,
                       taxpayer_type |-> IF Has(params, "taxpayerType")
                                         THEN Str(params.taxpayerType) ELSE Null]],
        totals |-> [claimed |-> totalClaimed,
                    used |-> totalUsed,
                    utilizationPct |-> computeUtilization(totalClaimed, totalUsed)],
        yearly |-> yearlyRows,
        topPrograms |-> SelectSeq(Map(topProgramRows, Top),
                                  LAMBDA row : ~IsNullish(row.program)),
        raw |-> IF params.view = "raw"
                THEN Map(mapRows(responses.raw), Raw) ELSE UndefinedValue]

\* LIMIT 10 of topProgramsQuery, line 604
TopProgramsLimit == 10

\* Rows the yearly query may be answered with, one per group of the year
\* column: amounts as decimal strings, a group without claims, a year label
\* that is no integer with malformed amounts, a group of rows without year
\* and with a negative amount, a row keyed by the dataset's column names
YearlyRowChoices ==
    { Obj(<< <<"year", Str("2020")>>, <<"claimed", Str("100")>>, <<"used", Str("40")>> >>),
      Obj(<< <<"year", Str("2019")>>, <<"claimed", Str("0")>>, <<"used", Str("50")>> >>),
      Obj(<< <<"year", Str("FY2021")>>, <<"claimed", Str("abc")>>, <<"used", Null>> >>),
      Obj(<< <<"claimed", Str("-5")>>, <<"used", Str("40")>> >>),
      Obj(<< <<"tax_year", Num(2018)>>, <<"credit_amount_claimed", Num(50)>>,
             <<"credit_amount_used", Num(50)>> >>) }

\* The sequences of at most n elements of S, all different
DistinctSeqs(S, n) ==
    {s \in UNION {[1..k -> S] : k \in 0..n} :
        \A i, j \in DOMAIN s : i # j => s[i] # s[j]}

\* What the upstream answers the yearly query with
YearlyResponses == {[array |-> rows] : rows \in DistinctSeqs(YearlyRowChoices, MaxRows)}

\* What the upstream answers the top-programs query with: ranked rows, rows
\* out of rank with a tie and a row without program, more rows than the limit
TopProgramsResponses ==
    { [array |-> << Obj(<< <<"program", Str("Film")>>, <<"claimed", Str("100")>> >>),
                    Obj(<< <<"program", Str("EITC")>>, <<"claimed", Str("40")>> >>) >>],
      [array |-> << Obj(<< <<"program", Str("EITC")>>, <<"claimed", Str("40")>> >>),
                    Obj(<< <<"program", Null>>, <<"claimed", Str("100")>> >>),
                    Obj(<< <<"credit_name", Str("Film")>>,
                           <<"claimed", Str("100")>> >>) >>],
      [array |-> [i \in 1..(TopProgramsLimit + 1) |->
                     Obj(<< <<"program", Str("P" \o ToString(i))>>,
                            <<"claimed", Num(50)>> >>)]] }

\* What the upstream answers the raw query with
RawResponses ==
    { [array |-> <<>>],
      [array |-> << Obj(<< <<"year", Str("2020")>>, <<"program", Str("Film")>>,
                           <<"claimed", Str("0")>>, <<"used", Str("40")>>,
                           <<"taxpayer_type", Null>> >>),
                    Obj(<< <<"year", Str("FY2021")>>, <<"program", Null>>,
                           <<"claimed", Str("-5")>>, <<"used", Str("abc")>> >>),
                    Obj(<< <<"program", Str("EITC")>>, <<"claimed", Num(50)>>,
                           <<"used", Num(40)>>,
                           <<"taxpayer_type", Str("Individual")>> >>) >>] }

\* What the upstream answers the two DISTINCT queries with
ProgramsResponse ==
    [array |-> << Obj(<< <<"program", Str("EITC")>> >>), Obj(<< <<"program", Str("")>> >>),
                  Obj(<< <<"program", Str("Film")>> >>) >>]

TaxpayerTypesResponse ==
    [array |-> << Obj(<< <<"taxpayer_type", Null>> >>),
                  Obj(<< <<"taxpayer_type", Str("Individual")>> >>) >>]

\* ParsedParams of requests for JSON (optional fields may be absent)
ParamChoices ==
    { [view |-> "agg", format |-> "json"],
      [view |-> "raw", format |-> "json", yearFrom |-> Num(2019), yearTo |-> Num(2020),
       program |-> << <<"E", "I", "T", "C">>, <<"O", "'", "N", "e", "i", "l">> >>,
       taxpayerType |-> <<"I", "n", "d", "i", "v", "i", "d", "u", "a", "l">>] }

\* The datasets of the requests: those of Datasets, one that has a year and a
\* program column but no amounts, and one whose sample is a v3 envelope that
\* describes every column
GetDatasets ==
    Datasets \cup
    { [metadata |-> [columns |-> << Col("tax_year", "Tax Year"),
                                    Col("credit_name", "Credit Name") >>],
       sample |-> [meta |-> [view |-> << Col("tax_year", "Tax Year"),
                                         Col("credit_name", "Credit Name") >>],
                   data |-> << Arr(<<"2020", "Film">>) >>]],
      [metadata |-> [columns |-> FullColumns],
       sample |-> [meta |-> [view |-> FullColumns],
                   data |-> << Arr(<<"2020", "100", "40", "Film", "Individual">>) >>]] }

GIdle ==
    /\ getRoute = "second"
    /\ getPc = "idle"
    /\ getParams = Null
    /\ getUpstream = Null
    /\ getColumns = Null
    /\ getQueries = Null
    /\ getResponse = Null

\* A request for JSON arrives; the upstream is healthy
GInit ==
    /\ getRoute \in Routes
    /\ getPc = "start"
    /\ getParams \in ParamChoices
    /\ getUpstream \in [yearly : YearlyResponses, topPrograms : TopProgramsResponses,
                        programs : {ProgramsResponse},
                        taxpayerTypes : {TaxpayerTypesResponse}, raw : RawResponses]
    /\ getColumns = Null
    /\ getQueries = Null
    /\ getResponse = Null

\* const columns = await getColumnMap(), lines 557 and 179; a throw goes to
\* the catch of GET
ResolveColumns ==
    /\ getPc = "start"
    /\ LET outcome == getColumnMapOf(getRoute, dataset)
       IN /\ getColumns' = outcome
          /\ IF outcome.ok
             THEN getPc' = "resolved" /\ getResponse' = getResponse
             ELSE getPc' = "responded" /\ getResponse' = ErrorResponse(outcome.error)
    /\ UNCHANGED <<getRoute, getParams, getUpstream, getQueries>>
    /\ UNCHANGED notG

\* The query strings are built and the queries made: lines 559-630 and 674-677
\* (lines 181-242 of the first revision)
BuildQueries ==
    /\ getPc = "resolved"
    /\ getQueries' = BuildQueryStrings(getParams, getColumns.columns)
    /\ getPc' = "queried"
    /\ UNCHANGED <<getRoute, getParams, getUpstream, getColumns, getResponse>>
    /\ UNCHANGED notG

\* The answers of the queries that were made (Null for the others)
Answers ==
    [k \in DOMAIN getUpstream |->
        IF getQueries[k] # Undefined THEN getUpstream[k] ELSE Null]

\* Every query has succeeded: the second revision builds responsePayload,
\* lines 632-731; sorted is yearlyRows after the sort of line 647
BuildPayload ==
    /\ getPc = "queried"
    /\ getRoute = "second"
    /\ LET YearlyRowOf(row) == YearlyRow(row, getColumns.columns)
       IN \E sorted \in SortOutcomes(Map(mapRows(Answers.yearly), YearlyRowOf)) :
             getResponse' = [status |-> 200, kind |-> "json",
                             body |-> ResponsePayload(getParams, getColumns.columns,
                                                      sorted, Answers)]
    /\ getPc' = "responded"
    /\ UNCHANGED <<getRoute, getParams, getUpstream, getColumns, getQueries>>
    /\ UNCHANGED notG

NextGet ==
    \/ ResolveColumns
    \/ BuildQueries
    \/ BuildPayload

-----------------------------------------------------------------------------
(***************************************************************************)
(* Text functions: parseSearchParams and buildWhere of route.ts, the CSV   *)
(* writer of GET, the program parameter between fetchData and the handler  *)
(***************************************************************************)

\* The texts of at most n characters of alphabet
Texts(alphabet, n) == UNION {[1..k -> alphabet] : k \in 0..n}

\* string.split(separator), separator one character
RECURSIVE split(_, _)
split(text, separator) ==
    IF \A i \in DOMAIN text : text[i] # separator THEN <<text>>
    ELSE LET first == CHOOSE i \in DOMAIN text :
                         /\ text[i] = separator
                         /\ \A j \in 1..(i - 1) : text[j] # separator
         IN <<SubSeq(text, 1, first - 1)>>
            \o split(SubSeq(text, first + 1, Len(text)), separator)

\* string.trim(); the only white space of the texts is the space
RECURSIVE trim(_)
trim(text) ==
    IF text = <<>> THEN <<>>
    ELSE IF text[1] = " " THEN trim(Tail(text))
    ELSE IF text[Len(text)] = " " THEN trim(SubSeq(text, 1, Len(text) - 1))
    ELSE text

\* An optional value: absent, or some value
Absent == [absent |-> TRUE]

Some(value) == [some |-> value]

\* A record with the field name when the value is given, without it otherwise
Opt(name, option) == IF option = Absent THEN <<>> ELSE name :> option.some

\* searchParams.get(name) is truthy
Given(search, name) == Has(search, name) /\ search[name] # <<>>

\* parseSearchParams, lines 487-509; search holds the decoded parameters of
\* the request URL, an undefined field of ParsedParams is absent
parseSearchParams(search) ==
    [view |-> IF Given(search, "view") THEN Text(search.view) ELSE "agg",
     format |-> IF Given(search, "format") THEN Text(search.format) ELSE "json"]
    @@ Opt("yearFrom", IF Given(search, "year_from")
                       THEN Some(parseInt(Text(search.year_from))) ELSE Absent)
    @@ Opt("yearTo", IF Given(search, "year_to")
                     THEN Some(parseInt(Text(search.year_to))) ELSE Absent)
    @@ Opt("program", IF Given(search, "program")
                      THEN Some(SelectSeq([i \in DOMAIN split(search.program, ",") |->
                                              trim(split(search.program, ",")[i])],
                                          LAMBDA value : value # <<>>))
                      ELSE Absent)
    @@ Opt("taxpayerType", IF Given(search, "taxpayer_type")
                           THEN Some(trim(search.taxpayer_type)) ELSE Absent)

\* Characters of a text parameter of a request
WhereAlphabet == {"a", "'", ",", " "}

\* Search parameters of requests: years that are integers, empty or no
\* number, program lists and taxpayer types with quotes, commas and spaces
SearchChoices ==
    { Opt("year_from", yearFrom) @@ Opt("year_to", yearTo)
      @@ Opt("program", program) @@ Opt("taxpayer_type", taxpayerType) :
        yearFrom \in {Absent, Some(<<>>), Some(<<"2019">>), Some(<<"a">>)},
        yearTo \in {Absent, Some(<<"2020">>)},
        program \in {Absent} \cup {Some(text) : text \in Texts(WhereAlphabet, MaxText)},
        taxpayerType \in {Absent, Some(<<" ">>), Some(<<"a">>), Some(<<"'", "a">>)} }

\* Column maps: every role resolved, no program column, no taxpayer column
WhereColumns ==
    { ColumnMap("tax_year", "credit_amount_claimed", "credit_amount_used",
                "credit_name", "taxpayer_type"),
      ColumnMap("tax_year", "credit_amount_claimed", "credit_amount_used",
                Undefined, "taxpayer_type"),
      ColumnMap("tax_year", Undefined, Undefined, "credit_name", Undefined) }

\* String(value) as a text; a number is one piece
CharsOf(value) ==
    IF IsNumber(value) THEN <<ToString(value.num)>>
    ELSE IF value = NaN THEN <<"NaN">>
    ELSE value.str

\* stringValue.includes(piece)
Includes(text, piece) == \E i \in DOMAIN text : text[i] = piece

\* stringValue.replace(/"/g, '""')
RECURSIVE DoubleQuotes(_)
DoubleQuotes(text) ==
    IF text = <<>> THEN <<>>
    ELSE (IF text[1] = "\"" THEN <<"\"", "\"">> ELSE <<text[1]>>)
         \o DoubleQuotes(Tail(text))

csvField_CommaOnly(value) ==
    IF IsNullish(value) THEN <<>>
    ELSE LET stringValue == CharsOf(value)
         IN IF Includes(stringValue, ",")
            THEN <<"\"">> \o DoubleQuotes(stringValue) \o <<"\"">>
            ELSE stringValue

\* The callback of values.map, lines 574-581
csvField(value) ==
    IF IsNullish(value) THEN <<>>
    ELSE LET stringValue == CharsOf(value)
         IN IF Includes(stringValue, ",") \/ Includes(stringValue, "\"")
            THEN <<"\"">> \o DoubleQuotes(stringValue) \o <<"\"">>
            ELSE stringValue

\* The five values of a row before .join(","), lines 567-581
csvValues(row, columns) ==
    << csvField(CoalesceValue(Get(row, "year"), Get(row, columns.year))),
       csvField(AliasOrColumn(row, "program", columns.program)),
       csvField(AliasOrColumn(row, "claimed", columns.claimed)),
       csvField(AliasOrColumn(row, "used", columns.used)),
       csvField(AliasOrColumn(row, "taxpayer_type", columns.taxpayerType)) >>

\* csvLines, lines 565-584: the header, then one line per row
csvLines(rows, columns) ==
    << <<"year,program,claimed,used,taxpayer_type">> >>
    \o [i \in DOMAIN rows |-> JoinTexts(csvValues(rows[i], columns), <<",">>)]

\* csvContent, line 585
csvContent(rows, columns) == JoinTexts(csvLines(rows, columns), <<"\n">>)

\* Characters of a field of a row
CsvAlphabet == {"a", ",", "\""}

\* Rows the raw query of the csv branch may be answered with: any program
\* text or none, a year that is a number or a label, an amount with a
\* thousands separator, a taxpayer type that is null or missing
CsvRowChoices ==
    { Obj(<< <<"year", year>>, <<"program", program>>, <<"claimed", claimed>>,
             <<"used", Num(40)>> >> \o taxpayer) :
        year \in {Num(2020), Str(<<"F", "Y">>)},
        program \in {Null} \cup {Str(text) : text \in Texts(CsvAlphabet, MaxText)},
        claimed \in {Num(50), Str(<<"1", ",", "5">>)},
        taxpayer \in { <<>>, << <<"taxpayer_type", Null>> >>,
                       << <<"taxpayer_type", Str(<<"a", "\"">>)>> >> } }

\* The answers of the raw query: one row, or one row before a plain row
CsvInputs ==
    { [fn |-> "csv", columns |-> columns, rows |-> <<row>> \o more] :
        columns \in { ColumnMap("tax_year", "credit_amount_claimed", "credit_amount_used",
                                "credit_name", "taxpayer_type") },
        row \in CsvRowChoices,
        more \in { <<>>,
                   << Obj(<< <<"tax_year", Num(2019)>>,
                             <<"credit_name", Str(<<"a", ",", "a">>)>>,
                             <<"credit_amount_claimed", Num(0)>> >>) >> } }

\* params.toString(), line 101: the application/x-www-form-urlencoded form
\* of a value; a letter and a printed number stay as they are
RECURSIVE FormEncode(_)
FormEncode(text) ==
    IF text = <<>> THEN <<>>
    ELSE (CASE text[1] = " " -> <<"+">>
            [] text[1] = "+" -> <<"%", "2", "B">>
            [] text[1] = "," -> <<"%", "2", "C">>
            [] text[1] = "'" -> <<"%", "2", "7">>
            [] text[1] = "\"" -> <<"%", "2", "2">>
            [] OTHER -> <<text[1]>>)
         \o FormEncode(Tail(text))

\* new URL(req.url).searchParams, line 488: the value the form stands for
RECURSIVE FormDecode(_)
FormDecode(text) ==
    IF text = <<>> THEN <<>>
    ELSE IF text[1] = "+" THEN <<" ">> \o FormDecode(Tail(text))
    ELSE IF text[1] = "%" /\ Len(text) >= 3
    THEN (CASE SubSeq(text, 2, 3) = <<"2", "B">> -> <<"+">>
            [] SubSeq(text, 2, 3) = <<"2", "C">> -> <<",">>
            [] SubSeq(text, 2, 3) = <<"2", "7">> -> <<"'">>
            [] SubSeq(text, 2, 3) = <<"2", "2">> -> <<"\"">>
            [] OTHER -> SubSeq(text, 1, 3))
         \o FormDecode(SubSeq(text, 4, Len(text)))
    ELSE <<text[1]>> \o FormDecode(Tail(text))

\* The query string of the request: the pairs with their values encoded
QueryString(pairs) == [i \in DOMAIN pairs |-> <<pairs[i][1], FormEncode(pairs[i][2])>>]

\* The searchParams of the request, by name
RECURSIVE SearchParams(_)
SearchParams(query) ==
    IF query = <<>> THEN <<>>
    ELSE (query[1][1] :> FormDecode(query[1][2])) @@ SearchParams(Tail(query))

\* Characters of a program name
NameAlphabet == {"a", ",", " ", "+"}

\* The program lists the page can select: names the dataset offers (not
\* empty), here written with | between the names
ProgramLists ==
    { selection \in { IF text = <<>> THEN <<>> ELSE split(text, "|") :
                        text \in Texts(NameAlphabet \cup {"|"}, MaxText) } :
        \A i \in DOMAIN selection : selection[i] # <<>> }

ProgramInputs == [fn : {"program"}, programs : ProgramLists]

WhereInputs == [fn : {"where"}, search : SearchChoices, columns : WhereColumns]

TextInputs == WhereInputs \cup CsvInputs \cup ProgramInputs

TIdle ==
    /\ textPc = "idle"
    /\ textInput = Null
    /\ textOutput = Null

TInit ==
    /\ textPc = "input"
    /\ textInput \in TextInputs
    /\ textOutput = Null

\* GET, lines 556-559: params = parseSearchParams(req) and
\* whereClause = buildWhere(params, columns)
ParseAndBuildWhere ==
    /\ textPc = "input"
    /\ textInput.fn = "where"
    /\ LET params == parseSearchParams(textInput.search)
       IN textOutput' = [params |-> params,
                         clauses |-> buildWhereClauses(params, textInput.columns),
                         whereText |-> buildWhereText(params, textInput.columns),
                         whereClause |-> buildWhere(params, textInput.columns)]
    /\ textPc' = "done"
    /\ UNCHANGED textInput
    /\ UNCHANGED notT

\* The csv branch of GET after the raw query was answered, lines 565-585
WriteCsv ==
    /\ textPc = "input"
    /\ textInput.fn = "csv"
    /\ LET rows == textInput.rows
           columns == textInput.columns
       IN textOutput' = [values |-> [i \in DOMAIN rows |-> csvValues(rows[i], columns)],
                         csvLines |-> csvLines(rows, columns),
                         csvContent |-> csvContent(rows, columns),
                         body |-> Text(csvContent(rows, columns))]
    /\ textPc' = "done"
    /\ UNCHANGED textInput
    /\ UNCHANGED notT

\* fetchData sends the selected programs (page.tsx lines 87-101) and the
\* handler parses the request (route.ts lines 487-509)
SendAndParsePrograms ==
    /\ textPc = "input"
    /\ textInput.fn = "program"
    /\ LET query == QueryString(BuildParams([programs |-> textInput.programs]))
           params == parseSearchParams(SearchParams(query))
       IN textOutput' = [query |-> query, params |-> params]
    /\ textPc' = "done"
    /\ UNCHANGED textInput
    /\ UNCHANGED notT

NextText ==
    \/ ParseAndBuildWhere
    \/ WriteCsv
    \/ SendAndParsePrograms

-----------------------------------------------------------------------------
(* Specifications *)

InitQuery == QInit /\ SIdle /\ PIdle /\ GIdle /\ TIdle

SpecQuery == InitQuery /\ [][NextQuery]_vars

\* Every HTTP request is answered or fails: the promise of fetchJson settles
PrimarySettles == (\E r \in RowSets : PrimaryOk(r)) \/ (\E s \in FailStatuses : PrimaryFail(s))

FallbackSettles ==
    (\E r \in RowSets : FallbackOk(r)) \/ (\E s \in FailStatuses : FallbackFail(s))

SpecQueryLive ==
    InitQuery /\ [][NextQuery]_vars /\ WF_vars(PrimarySettles) /\ WF_vars(FallbackSettles)

InitServer == QIdle /\ SInit /\ PIdle /\ GIdle /\ TIdle

SpecServer == InitServer /\ [][NextServer]_vars

InitPage == QIdle /\ SIdle /\ PInit /\ GIdle /\ TIdle

SpecPage == InitPage /\ [][NextPage]_vars

InitFilters == QIdle /\ SIdle /\ FInit /\ GIdle /\ TIdle

SpecFilters == InitFilters /\ [][NextFilters]_vars

InitGet ==
    /\ QIdle /\ PIdle /\ TIdle
    /\ dataset \in GetDatasets /\ cachedColumnMap = Null /\ req = EmptyBag
    /\ GInit

SpecGet == InitGet /\ [][NextGet]_vars

InitText == QIdle /\ SIdle /\ PIdle /\ GIdle /\ TInit

SpecText == InitText /\ [][NextText]_vars

-----------------------------------------------------------------------------
(* Claims about the remote query client, checked under SpecQuery *)

QuerySettled == qpc \in {"returned", "thrown"}

AuthStatuses == {401, 403}

\* The pieces of an error message that print a status
StatusSlots(msg) ==
    SelectSeq(msg, LAMBDA x : x \in {StatusText(s) : s \in FailStatuses} \cup {"unknown"})

C2_NoRetryOtherwise ==
    (/\ qpc \in {"fallback", "returned", "thrown"}
     /\ qLog[1].status # OkStatus /\ qLog[1].status # 0
     /\ (qLog[1].status \notin AuthStatuses \/ hasToken)) =>
        /\ Len(qLog) = 1
        /\ qpc = "thrown"
        /\ StatusSlots(qError) = <<StatusText(qLog[1].status)>>

\* C2 as it holds of the part_000 revision alone
C2_NoRetryOtherwise000 == lib = "part_000" => C2_NoRetryOtherwise

\* C3: when both requests of one call fail, the message of the error thrown
\* prints the status of the primary failure and the status of the fallback
\* failure, in that order.
C3_CombinedError ==
    (qpc = "thrown" /\ Len(qLog) = 2) =>
        LET slots == StatusSlots(qError)
        IN /\ Len(slots) = 2
           /\ (qLog[1].status # 0 => slots[1] = StatusText(qLog[1].status))
           /\ (qLog[2].status # 0 => slots[2] = StatusText(qLog[2].status))

C3_Witness ==
    /\ qpc = "thrown" /\ Len(qLog) = 2
    /\ qLog[1].status = 403 /\ qLog[2].status = 404
    /\ StatusSlots(qError) = <<"403", "404">>

-----------------------------------------------------------------------------
(* Claims about the column resolver and GET, checked under SpecServer *)

\* The upstream requests getColumnMap makes
ResolverRequests == {"metadata", "sample"}

\* The upstream queries GET makes for its response
DataQueries == {"csv", "yearly", "topPrograms", "programs", "taxpayerTypes", "raw"}

\* The upstream requests the request rec has made
Asked(rec) == {rec.up[i] : i \in DOMAIN rec.up}

\* getColumnMap has ended for the request rec
ResolveEnded(rec) == rec.pc \notin {"new", "awaitMetadata", "awaitSample"}

\* getColumnMap served the request rec from the cache
ServedFromCache(rec) == rec.cachedAtStart # Null

\* C4: after getColumnMap has succeeded once, every later call returns one and
\* the same cached mapping, and makes no metadata request and no sample query.
C4_LaterCallsIdentical ==
    \A r1, r2 \in Requests :
        (ServedFromCache(r1) /\ ServedFromCache(r2)) =>
            /\ r1.columns = r2.columns
            /\ Asked(r1) \cap ResolverRequests = {}

\* The part of C4 that holds: a call that finds the cache set returns what the
\* cache holds at that moment and asks the upstream nothing for it
C4_CacheHitNoRefetch ==
    \A rec \in Requests :
        ServedFromCache(rec) =>
            /\ rec.columns = rec.cachedAtStart
            /\ Asked(rec) \cap ResolverRequests = {}

\* C5: once cachedColumnMap holds a mapping, its value never changes again,
\* whatever the interleaving of requests.
C5_CacheImmutable ==
    [][cachedColumnMap # Null => cachedColumnMap' = cachedColumnMap]_vars

\* C6: the calls that run getColumnMap concurrently before any has cached a
\* result all return the same mapping, and the cache holds that mapping.
C6_RaceConverges ==
    \A r1, r2 \in Requests :
        (/\ ~ServedFromCache(r1) /\ r1.columns # Null
         /\ ~ServedFromCache(r2) /\ r2.columns # Null) =>
            /\ r1.columns = r2.columns
            /\ cachedColumnMap = r1.columns

\* getColumnMap threw, or a query for the response failed
Raised(rec) ==
    \/ ResolveEnded(rec) /\ rec.columns = Null
    \/ rec.upFailed \cap DataQueries # {}

\* The message of the error raised to GET's catch
RaisedMessage(rec) ==
    IF rec.upFailed \cap DataQueries # {}
    THEN QueryErrorMessage(CHOOSE k \in rec.upFailed \cap DataQueries : TRUE)
    ELSE YearErrorMessage

\* C8: every failure raised to the handler (getColumnMap throwing, or a query
\* for the response failing) is answered with status 500 and the body
\* {ok: false, error: message}; a request answered with status 200 had none.
C8_FailureEnvelope ==
    \A rec \in Requests :
        /\ Raised(rec) =>
              /\ rec.pc = "responded"
              /\ rec.resp.status = 500
              /\ rec.resp.kind = "json"
              /\ rec.resp.ok = FALSE
              /\ rec.resp.error = RaisedMessage(rec)
        /\ (rec.pc = "responded" /\ rec.resp.status = 200) => ~Raised(rec)
        /\ (rec.pc = "responded" /\ rec.resp.kind = "json" /\ rec.resp.ok) =>
              ~Raised(rec)

C8_Witness ==
    \E rec \in Requests :
        /\ "raw" \in rec.upFailed
        /\ rec.pc = "responded"
        /\ rec.resp = [status |-> 500, kind |-> "json", ok |-> FALSE,
                       error |-> QueryErrorMessage("raw")]

\* C9: when the year is unresolved after the metadata pass and the sample
\* fallback, getColumnMap throws and the request is answered as a failure; no
\* mapping with an empty year is returned or cached.
C9_YearMandatory ==
    /\ \A rec \in Requests :
          /\ (ResolveEnded(rec) /\ rec.columnMap # Null /\ ~Truthy(rec.columnMap.year)) =>
                /\ rec.columns = Null
                /\ rec.pc = "responded"
                /\ rec.resp.status = 500
                /\ rec.resp.ok = FALSE
                /\ rec.resp.error = YearErrorMessage
          /\ rec.columns # Null => Truthy(rec.columns.year)
    /\ cachedColumnMap # Null => Truthy(cachedColumnMap.year)

C9_Witness ==
    \E rec \in Requests :
        /\ Asked(rec) = ResolverRequests
        /\ rec.upFailed = {}
        /\ rec.columnMap # Null /\ rec.columnMap.year = ""
        /\ rec.pc = "responded" /\ rec.resp.status = 500
        /\ cachedColumnMap = Null

\* C10: a failure of the metadata request does not fail getColumnMap: the
\* metadata pass runs over zero candidates, the sample query is still made,
\* and its keys alone decide the mapping.
C10_MetadataFailureNotFatal ==
    \A rec \in Requests :
        "metadata" \in rec.upFailed =>
            /\ "sample" \in Asked(rec)
            /\ rec.pc = "awaitSample" => rec.columnMap = MetadataMap(<<>>)
            /\ (ResolveEnded(rec) /\ "sample" \notin rec.upFailed) =>
                  rec.columnMap =
                      FallbackMap(MetadataMap(<<>>), SampleColumns(dataset.sample))
            /\ (ResolveEnded(rec) /\ Truthy(rec.columnMap.year)) =>
                  rec.columns = rec.columnMap

C10_Witness ==
    \E rec \in Requests :
        /\ rec.upFailed = {"metadata"}
        /\ rec.columns # Null /\ rec.columns.year = "tax_year"
        /\ rec.pc = "responded" /\ rec.resp.status = 200

\* The roles whose absence after the metadata pass calls for the sample query
FallbackRoles == {"year", "claimed", "used", "program"}

\* The columnMap of the metadata pass of the request rec: over the columns of
\* the metadata view, or over none when the metadata request failed
MetadataPassMap(rec) ==
    MetadataMap(IF "metadata" \notin rec.upFailed /\ "columns" \in DOMAIN dataset.metadata
                THEN dataset.metadata.columns ELSE <<>>)

\* The metadata pass of the request rec is over
MetadataPassed(rec) == rec.pc \notin {"new", "awaitMetadata"} /\ ~ServedFromCache(rec)

\* C11: getColumnMap makes the one-row sample query if and only if one of
\* year, claimed, used, program is unresolved after the metadata pass; with
\* all four resolved from the metadata (or from the cache) it makes none.
C11_SampleIffUnresolved ==
    \A rec \in Requests :
        /\ MetadataPassed(rec) =>
              ("sample" \in Asked(rec)
                 <=> \E role \in FallbackRoles : ~Truthy(MetadataPassMap(rec)[role]))
        /\ ~MetadataPassed(rec) => "sample" \notin Asked(rec)

\* One request resolved all four roles from the metadata and asked for no
\* sample; another, with the year resolved but other roles missing, asked
C11_Witness ==
    \E r1, r2 \in Requests :
        /\ MetadataPassed(r1) /\ "sample" \notin Asked(r1)
        /\ r1.columns # Null /\ r1.columns = MetadataPassMap(r1)
        /\ MetadataPassed(r2) /\ "sample" \in Asked(r2)

\* The sample query is made although the metadata resolved the year
C11_WitnessYearResolved ==
    \E rec \in Requests :
        /\ MetadataPassed(rec) /\ "metadata" \notin rec.upFailed
        /\ Truthy(MetadataPassMap(rec).year)
        /\ "sample" \in Asked(rec)

\* The queries GET makes for a JSON response over the mapping columns
QueriesFor(rec) ==
    AggregateQueries(rec.columns) \cup (IF rec.view = "raw" THEN {"raw"} ELSE {})

\* C14: a response with ok: true is only produced once every query made for
\* the request (yearly, top programs, programs, taxpayer types, and raw when
\* view=raw) has succeeded; when one of them fails the response is the failure
\* envelope alone, and no response exists while a query is outstanding.
C14_AtomicResponse ==
    \A rec \in Requests :
        /\ (rec.pc = "responded" /\ rec.resp.kind = "json" /\ rec.resp.ok) =>
              /\ rec.columns # Null
              /\ Asked(rec) \cap DataQueries = QueriesFor(rec)
              /\ rec.upFailed \cap DataQueries = {}
              /\ rec.pending = {}
        /\ rec.upFailed \cap DataQueries # {} =>
              /\ rec.pc = "responded"
              /\ rec.resp = [status |-> 500, kind |-> "json", ok |-> FALSE,
                             error |-> RaisedMessage(rec)]
        /\ rec.pc \in {"awaitAggregates", "awaitRaw", "awaitCsv"} => rec.resp = Null

\* A view=raw request answered ok: true after all five queries, while another
\* request was answered with the failure envelope after its raw query failed
\* (its four aggregate queries had succeeded)
C14_Witness ==
    \E r1, r2 \in Requests :
        /\ r1.pc = "responded" /\ r1.resp.kind = "json" /\ r1.resp.ok
        /\ Asked(r1) \cap DataQueries = DataQueries \ {"csv"}
        /\ r2.pc = "responded" /\ r2.upFailed = {"raw"}
        /\ r2.resp.status = 500

\* The patterns of the year role as specified: calendar, tax or fiscal year
\* first, then the generic "year"
SpecifiedYearPatterns ==
    << <<"calendar", "year">>, <<"tax", "year">>, <<"fiscal", "year">>, <<"year">> >>

\* The patterns of each role, the year role's as specified
SpecifiedPatterns ==
    [year |-> SpecifiedYearPatterns, claimed |-> CLAIMED_REGEX, used |-> USED_REGEX,
     program |-> PROGRAM_REGEX, taxpayerType |-> TAXPAYER_REGEX]

\* The patterns of each role in the code
CodedPatterns ==
    [year |-> YEAR_REGEX, claimed |-> CLAIMED_REGEX, used |-> USED_REGEX,
     program |-> PROGRAM_REGEX, taxpayerType |-> TAXPAYER_REGEX]

\* The field identifier or the display name of the candidate matches
CandidateMatches(candidate, patterns) ==
    IF IsString(candidate) THEN RegexTest(patterns, candidate.str)
    ELSE \/ RegexTest(patterns, Coalesce(candidate.fieldName, ""))
         \/ RegexTest(patterns, Coalesce(candidate.name, ""))

\* The column a matching candidate stands for
CandidateColumn(candidate) ==
    IF IsString(candidate) THEN candidate.str
    ELSE Coalesce(candidate.fieldName, Coalesce(candidate.name, ""))

\* The first candidate, in candidate order, that matches
FirstMatching(candidates, patterns) ==
    LET hits == {i \in DOMAIN candidates : CandidateMatches(candidates[i], patterns)}
    IN IF hits = {} THEN Undefined
       ELSE CandidateColumn(candidates[CHOOSE i \in hits : \A j \in hits : i <= j])

\* The candidates of the metadata pass of the request rec
MetadataCandidates(rec) ==
    IF "metadata" \notin rec.upFailed /\ "columns" \in DOMAIN dataset.metadata
    THEN dataset.metadata.columns ELSE <<>>

\* C13: for each role the metadata pass picks the first candidate column, in
\* candidate order, whose field identifier or display name matches the role's
\* patterns; for the year role these include the fiscal year and the generic
\* "year", so a fiscal-year column is resolved as the year.
C13_FirstMatchWins ==
    \A rec \in Requests :
        MetadataPassed(rec) =>
            \A role \in DOMAIN SpecifiedPatterns :
                MetadataPassMap(rec)[role] =
                    LET found == FirstMatching(MetadataCandidates(rec),
                                               SpecifiedPatterns[role])
                    IN IF role = "year" THEN Coalesce(found, "") ELSE found

\* The part of C13 that holds: with the year patterns of the code (calendar
\* or tax year only), every role is the first matching candidate, in the
\* metadata pass and in the mapping that getColumnMap ends with
C13_FirstMatchWinsCoded ==
    \A rec \in Requests :
        MetadataPassed(rec) =>
            \A role \in DOMAIN CodedPatterns :
                LET found == FirstMatching(MetadataCandidates(rec), CodedPatterns[role])
                    sampled == FirstMatching(SampleColumns(dataset.sample),
                                             CodedPatterns[role])
                    first == IF role = "year" THEN Coalesce(found, "") ELSE found
                IN /\ MetadataPassMap(rec)[role] = first
                   /\ (ResolveEnded(rec) /\ "sample" \in Asked(rec)
                         /\ "sample" \notin rec.upFailed) =>
                         rec.columnMap[role] =
                            IF role = "year" THEN OrElse(OrElse(first, sampled), "")
                            ELSE OrElse(first, sampled)

-----------------------------------------------------------------------------
(* Claims about the queries and the payload of GET, checked under SpecGet *)

\* The year column the resolver of the revision identifies in the dataset ds
\* ("" when none)
ResolvedYear(route, ds) ==
    IF route = "first"
    THEN Coalesce(findColumn(ViewColumns(ds.sample), YEAR_REGEX), "")
    ELSE LET columns == IF "columns" \in DOMAIN ds.metadata
                        THEN ds.metadata.columns ELSE <<>>
         IN FallbackMap(MetadataMap(columns), SampleColumns(ds.sample)).year

\* The request parameters without the filters on columns that are unresolved
WithoutUnresolvedFilters(params, columns) ==
    LET dropped == (IF Truthy(columns.program) THEN {} ELSE {"program"})
                   \cup (IF Truthy(columns.taxpayerType) THEN {} ELSE {"taxpayerType"})
    IN [k \in DOMAIN params \ dropped |-> params[k]]

\* An unresolved optional role is no error downstream: the filter on its
\* column is dropped, its amount is the literal 0, and the response is built
DownstreamTolerates ==
    /\ getPc \in {"queried", "responded"} =>
          /\ getQueries.yearly =
                BuildQueryStrings(WithoutUnresolvedFilters(getParams, getColumns.columns),
                                  getColumns.columns).yearly
          /\ ~Truthy(getColumns.columns.claimed) => SumExpr(getColumns.columns.claimed) = "0"
          /\ ~Truthy(getColumns.columns.program) =>
                getQueries.topPrograms = Undefined /\ getQueries.programs = Undefined
          /\ ~Truthy(getColumns.columns.taxpayerType) => getQueries.taxpayerTypes = Undefined
    /\ (getPc = "responded" /\ getRoute = "second") =>
          /\ getResponse.status = 200
          /\ getResponse.body.ok
          /\ ~Truthy(getColumns.columns.program) => getResponse.body.topPrograms = <<>>
          /\ ~Truthy(getColumns.columns.claimed) =>
                \A i \in DOMAIN getResponse.body.yearly :
                    getResponse.body.yearly[i].claimed.num \in
                        {toNumber(Get(getUpstream.yearly.array[j], "claimed")).num :
                            j \in DOMAIN getUpstream.yearly.array}

\* C12: in both revisions column resolution succeeds whenever the year role is
\* resolved, whether or not claimed, used, program and taxpayerType are; an
\* unresolved optional role is never an error, and downstream it drops its
\* filter clause and yields zero amounts or absent values.
C12_OptionalRolesOptional ==
    getPc # "start" =>
        /\ Truthy(ResolvedYear(getRoute, dataset)) => getColumns.ok
        /\ getColumns.ok => DownstreamTolerates

\* The part of C12 that holds: the second revision
C12_OptionalRolesOptionalSecond ==
    (getPc # "start" /\ getRoute = "second") =>
        /\ Truthy(ResolvedYear(getRoute, dataset)) <=> getColumns.ok
        /\ getColumns.ok => DownstreamTolerates

\* The second revision answers a filtered request over a dataset without
\* amount and taxpayer-type columns
C12_WitnessSecond ==
    /\ getRoute = "second" /\ getPc = "responded"
    /\ getColumns.ok
    /\ \A role \in {"claimed", "used", "taxpayerType"} : ~Truthy(getColumns.columns[role])
    /\ Has(getParams, "taxpayerType")
    /\ getResponse.status = 200

\* GET has answered with a payload
Answered == getPc = "responded" /\ getResponse.status = 200

\* The levels of the payload that carry claimed, used and utilizationPct
Levels ==
    {getResponse.body.totals}
    \cup {getResponse.body.yearly[i] : i \in DOMAIN getResponse.body.yearly}
    \cup (IF getParams.view = "raw"
          THEN {getResponse.body.raw[i] : i \in DOMAIN getResponse.body.raw} ELSE {})

\* u is the number used / claimed * 100, or 0 when claimed is 0
IsUtilizationOf(u, claimed, used) ==
    IF claimed = 0 THEN u.p = 0 /\ u.q = 1
    ELSE u.q # 0 /\ u.p * claimed = used * 100 * u.q

\* C15: at every level of the payload (raw row, yearly aggregate, totals)
\* utilizationPct is used / claimed * 100 over that level's own claimed and
\* used when claimed is not 0, and is 0 when claimed is 0.
C15_UtilizationPerLevel ==
    Answered =>
        \A level \in Levels :
            IsUtilizationOf(level.utilizationPct, level.claimed.num, level.used.num)

\* A payload with a yearly aggregate and a raw row whose claimed is 0 and used
\* is not, and with totals that differ from the mean of the yearly percentages
C15_Witness ==
    /\ Answered
    /\ getParams.view = "raw"
    /\ \E i \in DOMAIN getResponse.body.yearly :
          /\ getResponse.body.yearly[i].claimed.num = 0
          /\ getResponse.body.yearly[i].used.num # 0
    /\ \E i \in DOMAIN getResponse.body.raw :
          /\ getResponse.body.raw[i].claimed.num = 0
          /\ getResponse.body.raw[i].used.num # 0
    /\ Len(getResponse.body.yearly) = 3
    /\ getResponse.body.totals.claimed.num = 150
    /\ getResponse.body.totals.used.num = 140
    /\ getResponse.body.totals.utilizationPct = [p |-> 280, q |-> 3]

\* The rows of the payload that carry claimed and used
AmountRows ==
    {getResponse.body.yearly[i] : i \in DOMAIN getResponse.body.yearly}
    \cup (IF getParams.view = "raw"
          THEN {getResponse.body.raw[i] : i \in DOMAIN getResponse.body.raw} ELSE {})

\* C16: in every normalized row and yearly aggregate claimed and used are
\* finite numbers that are zero or positive; a missing, null or non-numeric
\* input has become 0 and no NaN is emitted.
C16_AmountsNonNegative ==
    Answered =>
        \A row \in AmountRows :
            /\ IsNumber(row.claimed) /\ row.claimed.num >= 0
            /\ IsNumber(row.used) /\ row.used.num >= 0

\* The value is a number or a decimal literal
IsNumeric(value) ==
    IsNumber(value) \/ ("str" \in DOMAIN value /\ value.str \in DOMAIN DecimalStrings)

\* The part of C16 that holds: claimed and used are always finite numbers,
\* and they are 0 for a missing, null or non-numeric input
C16_AmountsFinite ==
    Answered =>
        /\ \A row \in AmountRows : IsNumber(row.claimed) /\ IsNumber(row.used)
        /\ getParams.view = "raw" =>
              \A i \in DOMAIN getResponse.body.raw :
                  \A field \in {"claimed", "used"} :
                      ~IsNumeric(Get(getUpstream.raw.array[i], field)) =>
                          getResponse.body.raw[i][field] = Num(0)

\* The year value of an upstream row: row.year ?? row[columns.year]
RawYear(row) == CoalesceValue(Get(row, "year"), Get(row, getColumns.columns.year))

\* The year is missing or is no integer
YearUnparsed(row) == ~IsNumber(parseInt(StringOf(RawYear(row))))

\* The rows the upstream answered the yearly and the raw query with
YearlyInput == mapRows(getUpstream.yearly)

RawInput == mapRows(getUpstream.raw)

\* C17: a row whose year is missing or fails integer parsing does not make
\* normalization throw and is not discarded, and the record emitted for it
\* carries the original raw year value as its label, not NaN.
C17_YearLabelKept ==
    (getPc = "responded" /\ getColumns.ok) =>
        /\ getResponse.status = 200
        /\ Len(getResponse.body.yearly) = Len(YearlyInput)
        /\ \A i \in DOMAIN YearlyInput :
              YearUnparsed(YearlyInput[i]) =>
                  \E j \in DOMAIN getResponse.body.yearly :
                      /\ getResponse.body.yearly[j].year = RawYear(YearlyInput[i])
                      /\ getResponse.body.yearly[j].claimed
                            = YearlyRow(YearlyInput[i], getColumns.columns).claimed
        /\ \A j \in DOMAIN getResponse.body.yearly :
              getResponse.body.yearly[j].year # NaN
        /\ getParams.view = "raw" =>
              /\ Len(getResponse.body.raw) = Len(RawInput)
              /\ \A i \in DOMAIN RawInput :
                    YearUnparsed(RawInput[i]) =>
                        getResponse.body.raw[i].year = RawYear(RawInput[i])

\* The part of C17 that holds: no row makes normalization throw, no row is
\* discarded, and the raw rows keep the year value they came with
C17_RowsKept ==
    (getPc = "responded" /\ getColumns.ok) =>
        /\ getResponse.status = 200
        /\ Len(getResponse.body.yearly) = Len(YearlyInput)
        /\ getParams.view = "raw" =>
              /\ Len(getResponse.body.raw) = Len(RawInput)
              /\ \A i \in DOMAIN RawInput :
                    getResponse.body.raw[i].year = RawYear(RawInput[i])

\* The yearly list of the response
Yearly == getResponse.body.yearly

\* C18: the yearly list of the response holds exactly one aggregate per
\* distinct year of the rows the upstream returned, in strictly ascending
\* order of year, whatever order those rows arrived in.
C18_YearlyAscending ==
    Answered =>
        /\ \A i, j \in DOMAIN Yearly :
              i < j => /\ IsNumber(Yearly[i].year) /\ IsNumber(Yearly[j].year)
                       /\ Yearly[i].year.num < Yearly[j].year.num
        /\ {Yearly[i].year : i \in DOMAIN Yearly}
              = {parseInt(StringOf(RawYear(YearlyInput[i]))) : i \in DOMAIN YearlyInput}
        /\ Len(Yearly) = Cardinality({RawYear(YearlyInput[i]) : i \in DOMAIN YearlyInput})

\* Every year of the upstream rows is an integer
YearsParsed == \A i \in DOMAIN YearlyInput : ~YearUnparsed(YearlyInput[i])

\* The part of C18 that holds: when every year is an integer the yearly list
\* has one aggregate per year in strictly ascending order
C18_AscendingWhenParsed ==
    (Answered /\ YearsParsed) =>
        /\ \A i, j \in DOMAIN Yearly : i < j => Yearly[i].year.num < Yearly[j].year.num
        /\ {Yearly[i].year : i \in DOMAIN Yearly}
              = {parseInt(StringOf(RawYear(YearlyInput[i]))) : i \in DOMAIN YearlyInput}
        /\ Len(Yearly) = Cardinality({RawYear(YearlyInput[i]) : i \in DOMAIN YearlyInput})

\* Three years that arrived out of order were answered in order
C18_ParsedReordered ==
    /\ Answered /\ YearsParsed
    /\ Len(YearlyInput) = 3
    /\ RawYear(YearlyInput[1]) = Str("2020")
    /\ RawYear(YearlyInput[3]) = Str("2019")

\* The sum of field over the records of rows
RECURSIVE Sum(_, _)
Sum(rows, field) ==
    IF rows = <<>> THEN 0
    ELSE rows[Len(rows)][field].num + Sum(SubSeq(rows, 1, Len(rows) - 1), field)

\* C19: totals.claimed and totals.used are the sums of claimed and of used
\* over the yearly aggregates of the response, and totals.utilizationPct is
\* the utilization of those two sums.
C19_TotalsAreSums ==
    Answered =>
        LET totals == getResponse.body.totals
        IN /\ totals.claimed = Num(Sum(Yearly, "claimed"))
           /\ totals.used = Num(Sum(Yearly, "used"))
           /\ IsUtilizationOf(totals.utilizationPct,
                              Sum(Yearly, "claimed"), Sum(Yearly, "used"))

\* Three aggregates were summed, and the utilization of the sums, 140 of 150,
\* is not the mean of the yearly utilizations
C19_Witness ==
    /\ Answered
    /\ Len(Yearly) = 3
    /\ getResponse.body.totals.claimed = Num(150)
    /\ getResponse.body.totals.used = Num(140)
    /\ getResponse.body.totals.utilizationPct = Ratio(280, 3)
    /\ \E i \in DOMAIN Yearly : Yearly[i].utilizationPct = Ratio(0, 1)

\* The entries of topPrograms in the order the upstream returned their rows
\* (none when the top-programs query was not made)
TopProgramsInput ==
    LET Top(row) == TopProgramRow(row, getColumns.columns)
    IN IF Answers.topPrograms = Null THEN <<>>
       ELSE SelectSeq(Map(mapRows(Answers.topPrograms), Top),
                      LAMBDA row : ~IsNullish(row.program))

\* Inserts row after the rows of ranked whose claimed is not smaller
RECURSIVE InsertByClaimed(_, _)
InsertByClaimed(ranked, row) ==
    IF ranked = <<>> THEN <<row>>
    ELSE IF Head(ranked).claimed.num >= row.claimed.num
         THEN <<Head(ranked)>> \o InsertByClaimed(Tail(ranked), row)
         ELSE <<row>> \o ranked

\* rows in descending order of claimed, ties in the order of rows
RECURSIVE RankByClaimed(_)
RankByClaimed(rows) ==
    IF rows = <<>> THEN <<>>
    ELSE InsertByClaimed(RankByClaimed(SubSeq(rows, 1, Len(rows) - 1)), rows[Len(rows)])

\* The first n elements of rows
FirstN(rows, n) == SubSeq(rows, 1, IF Len(rows) < n THEN Len(rows) ELSE n)

\* C20: whatever rows the upstream returned for the top-programs query,
\* topPrograms has at most 10 entries, in descending order of claimed, ties
\* in the order the rows were met.
C20_TopProgramsRanked ==
    Answered =>
        getResponse.body.topPrograms
            = FirstN(RankByClaimed(TopProgramsInput), TopProgramsLimit)

\* The upstream honoured ORDER BY claimed DESC LIMIT 10
UpstreamRanked ==
    /\ Len(TopProgramsInput) <= TopProgramsLimit
    /\ \A i, j \in DOMAIN TopProgramsInput :
          i < j => TopProgramsInput[i].claimed.num >= TopProgramsInput[j].claimed.num

\* The part of C20 that holds: the answer of an upstream that honoured the
\* ORDER BY and the LIMIT of the query is emitted in the order it came
C20_RankedWhenUpstreamRanked ==
    (Answered /\ UpstreamRanked) =>
        getResponse.body.topPrograms
            = FirstN(RankByClaimed(TopProgramsInput), TopProgramsLimit)

\* Two ranked programs were answered
C20_UpstreamRankedAnswered ==
    /\ Answered /\ UpstreamRanked
    /\ Len(getResponse.body.topPrograms) = 2
    /\ getResponse.body.topPrograms[1].claimed = Num(100)

\* The integer years of the rows the upstream answered the yearly query with
ObservedYears ==
    {parseInt(StringOf(RawYear(YearlyInput[i]))).num :
        i \in {j \in DOMAIN YearlyInput : ~YearUnparsed(YearlyInput[j])}}

\* C21: meta.years is the ascending run of consecutive integers from the
\* smallest to the largest observed integer year, years without records
\* included, and is empty when no integer year is observed.
C21_YearsContiguous ==
    Answered =>
        LET years == getResponse.body.meta.years
        IN /\ (ObservedYears = {}) <=> (years = <<>>)
           /\ years # <<>> =>
                 /\ \A y \in ObservedYears : years[1].num <= y /\ y <= years[Len(years)].num
                 /\ years[1].num \in ObservedYears
                 /\ years[Len(years)].num \in ObservedYears
                 /\ \A i \in 1..(Len(years) - 1) : years[i + 1].num = years[i].num + 1

\* 2018 and 2020 were observed, 2019 was not, and meta.years holds all three
C21_Witness ==
    /\ Answered
    /\ ObservedYears = {2018, 2020}
    /\ getResponse.body.meta.years = <<Num(2018), Num(2019), Num(2020)>>

\* No integer year was observed among the rows and meta.years is empty
C21_WitnessEmpty ==
    /\ Answered
    /\ Len(YearlyInput) > 0
    /\ getResponse.body.meta.years = <<>>

-----------------------------------------------------------------------------
(* Claims about the client page, checked under SpecPage *)

\* The fetchData call c has been superseded by a newer call
Superseded(c) == c < Len(calls)

\* C7: a fetchData call that a newer call has superseded never calls setData
\* with its response nor setError with its error, in whatever order the
\* responses arrive; data and error are only ever set by the newest call.
C7_SupersededDiscarded ==
    \A i \in DOMAIN setLog :
        setLog[i].setter \in {"setData", "setError"} =>
            setLog[i].call = setLog[i].latest

\* The first call's successful response arrives while the second call, which
\* superseded it, is still in flight, and is discarded
C7_Witness ==
    /\ Len(calls) >= 2
    /\ calls[1].pc = "done"
    /\ calls[1].aborted
    /\ calls[1].outcome.kind = "json"
    /\ calls[1].outcome.json.ok
    /\ calls[2].pc # "done"
    /\ data = Null


-----------------------------------------------------------------------------
(* Claims about the text functions, checked under SpecText *)

\* buildWhere has returned
WhereBuilt == textPc = "done" /\ textInput.fn = "where"

\* The filters of the request that are active: a year bound that is given, a
\* program list that is given and not empty when the program column is
\* resolved, a taxpayer type that is given when its column is resolved
ActiveFilters ==
    LET params == textOutput.params
        columns == textInput.columns
    IN {f \in {"yearFrom", "yearTo"} : Has(params, f)}
       \cup (IF Has(params, "program") /\ params.program # <<>>
                /\ columns.program # Undefined
             THEN {"program"} ELSE {})
       \cup (IF Has(params, "taxpayerType") /\ params.taxpayerType # <<>>
                /\ columns.taxpayerType # Undefined
             THEN {"taxpayerType"} ELSE {})

\* The clause is the comparison of the filter
IsClauseOf(clause, filter) ==
    LET columns == textInput.columns
        Spells(from, to, string) ==
            Len(clause) >= to /\ Text(SubSeq(clause, from, to)) = string
    IN CASE filter = "yearFrom" ->
                /\ Spells(1, 7, "\"" \o columns.year \o "\" >= ")
                /\ Len(clause) = 8
         [] filter = "yearTo" ->
                /\ Spells(1, 7, "\"" \o columns.year \o "\" <= ")
                /\ Len(clause) = 8
         [] filter = "program" ->
                /\ Spells(1, 9, "\"" \o columns.program \o "\" IN ('")
                /\ clause[Len(clause)] = ")"
         [] filter = "taxpayerType" ->
                /\ Spells(1, 7, "\"" \o columns.taxpayerType \o "\" = '")
                /\ clause[Len(clause)] = "'"

\* The number of pieces of text that are piece
RECURSIVE Count(_, _)
Count(text, piece) ==
    IF text = <<>> THEN 0
    ELSE (IF text[1] = piece THEN 1 ELSE 0) + Count(Tail(text), piece)

\* part is a run of consecutive pieces of whole
Occurs(part, whole) ==
    \E i \in 0..(Len(whole) - Len(part)) : SubSeq(whole, i + 1, i + Len(part)) = part

\* C22: buildWhere emits exactly one clause for every active filter and no
\* other clause, joins them by AND behind WHERE, drops the filter of an
\* unresolved column without an error, and returns the empty predicate when
\* no filter is active.
C22_OneClausePerFilter ==
    WhereBuilt =>
        LET clauses == textOutput.clauses
            where == textOutput.whereText
        IN /\ Len(clauses) = Cardinality(ActiveFilters)
           /\ \A f \in ActiveFilters :
                 Cardinality({i \in DOMAIN clauses : IsClauseOf(clauses[i], f)}) = 1
           /\ (ActiveFilters = {}) <=> (textOutput.whereClause = "")
           /\ ActiveFilters # {} =>
                 /\ Text(SubSeq(where, 1, 6)) = "WHERE "
                 /\ \A i \in DOMAIN clauses : Occurs(clauses[i], where)
                 /\ Count(where, "A") = Len(clauses) - 1
                 /\ \A i \in DOMAIN where :
                       where[i] = "A" =>
                           Text(SubSeq(where, i - 1, i + 3)) = " AND "
                 /\ Count(where, "O") = 0

\* Four filters were active and the predicate has four clauses
C22_Witness ==
    /\ WhereBuilt
    /\ Cardinality(ActiveFilters) = 4
    /\ Len(textOutput.clauses) = 4
    /\ textOutput.whereClause
          = "WHERE \"tax_year\" >= 2019 AND \"tax_year\" <= 2020 AND "
            \o "\"credit_name\" IN ('a', '''') AND \"taxpayer_type\" = 'a'"

\* A program list was given but the program column is unresolved: no clause
C22_WitnessDropped ==
    /\ WhereBuilt
    /\ Has(textOutput.params, "program") /\ textOutput.params.program # <<>>
    /\ textInput.columns.program = Undefined
    /\ Has(textOutput.params, "yearTo")
    /\ textOutput.whereClause = "WHERE \"tax_year\" <= 2020"

\* Reads a predicate the way the query dialect does: a quote opens a string
\* literal, two quotes inside a literal are one quote character of its value,
\* a single quote closes it. The result holds the values of the literals, the
\* text outside the literals with "?" for each literal, and whether the end
\* was reached inside a literal.
RECURSIVE ReadLiterals(_, _, _, _, _)
ReadLiterals(text, inside, value, literals, outside) ==
    IF text = <<>>
    THEN [literals |-> literals, outside |-> outside, open |-> inside]
    ELSE IF ~inside
    THEN IF text[1] = "'"
         THEN ReadLiterals(Tail(text), TRUE, <<>>, literals, outside \o <<"?">>)
         ELSE ReadLiterals(Tail(text), FALSE, <<>>, literals, outside \o <<text[1]>>)
    ELSE IF text[1] # "'"
    THEN ReadLiterals(Tail(text), TRUE, value \o <<text[1]>>, literals, outside)
    ELSE IF Len(text) >= 2 /\ text[2] = "'"
    THEN ReadLiterals(Tail(Tail(text)), TRUE, value \o <<"'">>, literals, outside)
    ELSE ReadLiterals(Tail(text), FALSE, <<>>, literals \o <<value>>, outside)

Read(text) == ReadLiterals(text, FALSE, <<>>, <<>>, <<>>)

\* The texts of the request that reach the predicate, in the order of the
\* clauses: the program names, then the taxpayer type
UserTexts ==
    (IF "program" \in ActiveFilters THEN textOutput.params.program ELSE <<>>)
    \o (IF "taxpayerType" \in ActiveFilters
        THEN <<textOutput.params.taxpayerType>> ELSE <<>>)

\* A year bound as the predicate may show it: an integer literal, or NaN when
\* the parameter is no integer; never the text of the parameter
YearTerm(value) == IF IsNumber(value) THEN ToString(value.num) ELSE "NaN"

\* The predicate of the active filters with "?" for every string literal
PredicateShape ==
    LET params == textOutput.params
        columns == textInput.columns
        Marks(n) == Join([i \in 1..n |-> "?"], ", ")
        shapes ==
            (IF "yearFrom" \in ActiveFilters
             THEN <<"\"" \o columns.year \o "\" >= " \o YearTerm(params.yearFrom)>>
             ELSE <<>>)
            \o (IF "yearTo" \in ActiveFilters
                THEN <<"\"" \o columns.year \o "\" <= " \o YearTerm(params.yearTo)>>
                ELSE <<>>)
            \o (IF "program" \in ActiveFilters
                THEN <<"\"" \o columns.program \o "\" IN ("
                       \o Marks(Len(params.program)) \o ")">>
                ELSE <<>>)
            \o (IF "taxpayerType" \in ActiveFilters
                THEN <<"\"" \o columns.taxpayerType \o "\" = ?">>
                ELSE <<>>)
    IN IF shapes = <<>> THEN "" ELSE "WHERE " \o Join(shapes, " AND ")

\* C23: in every predicate built by buildWhere the texts of the request stand
\* only inside single-quoted string literals whose embedded quotes are
\* doubled, and the years as numbers: read by the dialect, the predicate ends
\* outside a literal, its literals hold exactly the texts of the request, and
\* the text outside the literals is the one the active filters fix, whatever
\* the texts contain.
C23_UserTextQuoted ==
    WhereBuilt =>
        LET read == Read(textOutput.whereText)
        IN /\ ~read.open
           /\ read.literals = UserTexts
           /\ Text(read.outside) = PredicateShape

\* A program name that is a quote character and a taxpayer type that starts
\* with one were put into the predicate
C23_Witness ==
    /\ WhereBuilt
    /\ UserTexts = << <<"a">>, <<"'">>, <<"'", "a">> >>
    /\ textOutput.whereClause
          = "WHERE \"credit_name\" IN ('a', '''') AND \"taxpayer_type\" = '''a'"

\* The csv branch has written its lines
CsvWritten == textPc = "done" /\ textInput.fn = "csv"

\* The string of a value of a row, empty for null and for a missing value
FieldText(value) == IF IsNullish(value) THEN <<>> ELSE CharsOf(value)

\* The five values of row i of the answer as strings: year, program,
\* claimed, used, taxpayer_type
RowTexts(i) ==
    LET row == textInput.rows[i]
        columns == textInput.columns
        Value(alias, column) == CoalesceValue(Get(row, alias), Get(row, column))
    IN << FieldText(Value("year", columns.year)),
          FieldText(Value("program", columns.program)),
          FieldText(Value("claimed", columns.claimed)),
          FieldText(Value("used", columns.used)),
          FieldText(Value("taxpayer_type", columns.taxpayerType)) >>

\* Reads a line as an RFC 4180 record: commas outside double quotes separate
\* the fields, two double quotes inside a quoted field are one quote character
RECURSIVE ReadRecord(_, _, _, _)
ReadRecord(text, quoted, field, fields) ==
    IF text = <<>> THEN fields \o <<field>>
    ELSE IF ~quoted
    THEN IF text[1] = "," THEN ReadRecord(Tail(text), FALSE, <<>>, fields \o <<field>>)
         ELSE IF text[1] = "\"" THEN ReadRecord(Tail(text), TRUE, field, fields)
         ELSE ReadRecord(Tail(text), FALSE, field \o <<text[1]>>, fields)
    ELSE IF text[1] # "\"" THEN ReadRecord(Tail(text), TRUE, field \o <<text[1]>>, fields)
    ELSE IF Len(text) >= 2 /\ text[2] = "\""
    THEN ReadRecord(Tail(Tail(text)), TRUE, field \o <<"\"">>, fields)
    ELSE ReadRecord(Tail(text), FALSE, field, fields)

\* The string holds a comma or a double quote
NeedsQuotes(text) == Includes(text, ",") \/ Includes(text, "\"")

\* C24: the CSV output starts with the header year,program,claimed,used,
\* taxpayer_type and has one record of five fields for every raw row; a field
\* is wrapped in double quotes, its own quotes doubled, exactly when its
\* string holds a comma or a double quote, and is the string itself
\* otherwise, the empty string for a null or missing value.
C24_CsvQuoting ==
    CsvWritten =>
        LET lines == textOutput.csvLines
            values == textOutput.values
        IN /\ Text(lines[1]) = "year,program,claimed,used,taxpayer_type"
           /\ Len(lines) = Len(textInput.rows) + 1
           /\ Count(textOutput.csvContent, "\n") = Len(textInput.rows)
           /\ \A i \in DOMAIN textInput.rows :
                 /\ Len(values[i]) = 5
                 /\ ReadRecord(lines[i + 1], FALSE, <<>>, <<>>) = RowTexts(i)
                 /\ \A j \in 1..5 :
                       LET string == RowTexts(i)[j]
                           field == values[i][j]
                       IN IF NeedsQuotes(string)
                          THEN /\ field[1] = "\"" /\ field[Len(field)] = "\""
                               /\ Count(field, "\"") = 2 + 2 * Count(string, "\"")
                               /\ Len(field) = Len(string) + 2 + Count(string, "\"")
                          ELSE field = string

\* A program with a comma and a quote was wrapped and its quote doubled, next
\* to a plain year and an empty taxpayer type
C24_Witness ==
    /\ CsvWritten
    /\ Len(textInput.rows) = 2
    /\ RowTexts(1)[2] = <<"a", ",", "\"">>
    /\ textOutput.values[1][2] = <<"\"", "a", ",", "\"", "\"", "\"">>
    /\ textOutput.values[1][1] = <<"2020">>
    /\ textOutput.values[1][5] = <<>>
    /\ textOutput.body
          = "year,program,claimed,used,taxpayer_type\n2020,\"a,\"\"\",50,40,\n2019,\"a,a\",0,,"


\* The handler has parsed the request fetchData sent for a selection
ProgramsParsed == textPc = "done" /\ textInput.fn = "program"

\* params.program ?? []
ParsedPrograms ==
    IF Has(textOutput.params, "program") THEN textOutput.params.program ELSE <<>>

\* C30: for every list of selected program names, the list the handler
\* parses from the program parameter fetchData built (the names joined by
\* commas) is the selected list.
C30_ProgramRoundTrip ==
    ProgramsParsed => ParsedPrograms = textInput.programs

\* No selected name holds a comma or starts or ends with a space
PlainNames ==
    \A i \in DOMAIN textInput.programs :
        LET name == textInput.programs[i]
        IN /\ ~Includes(name, ",")
           /\ name[1] # " " /\ name[Len(name)] # " "

\* The part of C30 that holds: a selection of names without commas and
\* without spaces around them is parsed as it was selected
C30_PlainNamesRoundTrip ==
    (ProgramsParsed /\ PlainNames) => ParsedPrograms = textInput.programs

\* Two plain names, one with a + and a space inside, were sent and parsed
C30_PlainNamesSent ==
    /\ ProgramsParsed /\ PlainNames
    /\ Len(textInput.programs) = 2
    /\ \E i \in DOMAIN textInput.programs : Includes(textInput.programs[i], "+")
    /\ ParsedPrograms = textInput.programs


-----------------------------------------------------------------------------
(* Claims about the remote query client, checked under SpecQueryLive *)

\* The HTTP requests of the running call are in order: at most two, the
\* first to the primary endpoint, the second to the other endpoint and sent
\* only after the first had failed
RequestsInOrder ==
    /\ Len(qLog) <= 2
    /\ Len(qLog) >= 1 => qLog[1].endpoint = PrimaryEndpoint(lib)
    /\ Len(qLog) = 2 =>
          /\ qLog[1].status \in FailStatuses
          /\ qLog[2].endpoint = SecondaryEndpoint(lib)
          /\ qLog[2].endpoint # qLog[1].endpoint

\* The call has ended in exactly one way
EndedOneWay ==
    /\ qpc = "returned" => qResult \in RowSets /\ qError = <<>>
    /\ qpc = "thrown" => qResult = None /\ qError # <<>>

\* C25: a socrataQuery call issues at most two HTTP requests, the second one
\* only after the first has failed, and every call ends, by returning rows or
\* by throwing an error; there is no third request.
C25_AtMostTwoRequestsAndEnds ==
    /\ [](RequestsInOrder /\ EndedOneWay)
    /\ (qpc \in {"primary", "fallback"}) ~> QuerySettled

\* A call made two requests, both failed, and it threw
C25_Witness ==
    /\ qpc = "thrown"
    /\ Len(qLog) = 2
    /\ qLog[2].status \in FailStatuses
    /\ qError # <<>>


-----------------------------------------------------------------------------
(* Further claims about the column resolver, checked under SpecServer *)

\* getColumnMap threw for the request rec: the year is unresolved
ResolveFailed(rec) == ResolveEnded(rec) /\ rec.columns = Null

\* C26: a getColumnMap call that fails because the year is unresolved leaves
\* cachedColumnMap as it was, so no partial or failed mapping is ever cached;
\* a call that finds the cache unset performs the full resolution again,
\* starting with the metadata request, and can succeed.
C26_FailureNotCached ==
    /\ [](/\ cachedColumnMap # Null => Truthy(cachedColumnMap.year)
          /\ \A rec \in Requests :
                /\ ResolveFailed(rec) =>
                      /\ ~Truthy(rec.columnMap.year)
                      /\ cachedColumnMap # rec.columnMap
                      /\ rec.resp.error = YearErrorMessage
                /\ (rec.cachedAtStart = Null /\ rec.pc # "new") =>
                      rec.up # <<>> /\ rec.up[1] = "metadata")
    /\ [][(\E rec \in BagToSet(req') :
              ResolveFailed(rec) /\ CopiesIn(rec, req') > CopiesIn(rec, req))
          => cachedColumnMap' = cachedColumnMap]_vars

\* One call failed while the upstream was failing and left the cache unset;
\* a call that then ran the full resolution succeeded and cached its mapping
C26_Witness ==
    \E failed, recovered \in Requests :
        /\ ResolveFailed(failed)
        /\ failed.upFailed = {"metadata", "sample"}
        /\ failed.cachedAtStart = Null
        /\ recovered.cachedAtStart = Null
        /\ recovered.upFailed = {}
        /\ recovered.columns # Null
        /\ "metadata" \in Asked(recovered)
        /\ cachedColumnMap = recovered.columns


-----------------------------------------------------------------------------
(* Claims about the loading flag of the client page, checked under SpecPage *)

\* The fetchData call c has not settled yet
InFlight(c) == calls[c].pc # "done"

\* The fetchData call c settles in this step
Settles(c) == c \in DOMAIN calls /\ InFlight(c) /\ calls'[c].pc = "done"

\* C27: on the mounted page, loading is false whenever no fetch is in flight
\* and whenever the latest fetch has settled, it is true while a fetch that
\* was not aborted is in flight, and the settling of an aborted fetch leaves
\* the loading flag as it is.
C27_LoadingFollowsLatestFetch ==
    /\ [](mounted =>
            /\ (\A c \in DOMAIN calls : ~InFlight(c)) => loading = FALSE
            /\ (calls # <<>> /\ ~InFlight(Len(calls))) => loading = FALSE
            /\ (\E c \in DOMAIN calls : InFlight(c) /\ ~calls[c].aborted) => loading = TRUE)
    /\ [][\A c \in DOMAIN calls :
            (Settles(c) /\ calls[c].aborted) => loading' = loading]_vars

\* An aborted fetch has settled while the fetch that superseded it is still
\* in flight, and loading is still true
C27_Witness ==
    /\ mounted
    /\ Len(calls) >= 2
    /\ calls[1].aborted /\ ~InFlight(1)
    /\ InFlight(Len(calls)) /\ ~calls[Len(calls)].aborted
    /\ loading = TRUE

\* The latest of several fetches has settled, an aborted one has not, and
\* loading is false
C27_WitnessSettled ==
    /\ mounted
    /\ Len(calls) >= 2
    /\ calls[1].aborted /\ InFlight(1)
    /\ ~InFlight(Len(calls))
    /\ loading = FALSE


-----------------------------------------------------------------------------
(* Claims about the filters of the client page, checked under SpecFilters *)

\* The filters of the first render
NoFilters == [programs |-> <<>>]

\* The effect on data?.meta?.years has run in this step
DefaultYearsRan == "defaultYears" \in effects /\ "defaultYears" \notin effects'

\* C28: from the mount, with no user action and only successful responses,
\* the page makes at most two fetchData calls, the first without filters and
\* the second with the first and the last of the meta.years of the first
\* response as year bounds, and no fetch is due after the second; the effect
\* on meta.years leaves appliedFilters alone and makes no fetch due once
\* appliedFilters has a year bound.
C28_AtMostTwoFetchesAfterMount ==
    /\ [](untouched =>
            /\ Len(calls) <= 2
            /\ Len(calls) >= 1 => calls[1].params = BuildParams(NoFilters)
            /\ Len(calls) = 2 =>
                  /\ calls[1].outcome # Null
                  /\ HasYears(calls[1].outcome.json)
                  /\ calls[2].params =
                        BuildParams(WithDefaultYears(NoFilters, calls[1].outcome.json))
                  /\ "fetch" \notin effects)
    /\ [][(DefaultYearsRan /\ (Has(appliedFilters, "yearFrom") \/ Has(appliedFilters, "yearTo")))
          => (appliedFilters' = appliedFilters /\ "fetch" \notin effects' /\ calls' = calls)]_vars

\* The page is quiescent after its two fetches: both have settled with a
\* success, the effect on meta.years has run again and nothing is due
C28_Witness ==
    /\ mounted
    /\ untouched
    /\ Len(calls) = 2
    /\ \A c \in DOMAIN calls : calls[c].pc = "done"
    /\ data = calls[2].outcome.json
    /\ effects = {}
    /\ appliedFilters = [programs |-> <<>>, yearFrom |-> 2019, yearTo |-> 2020]

\* yearFrom and yearTo are both set and yearFrom is the greater
Reversed(filters) ==
    /\ Has(filters, "yearFrom")
    /\ Has(filters, "yearTo")
    /\ filters.yearFrom > filters.yearTo

\* C29: appliedFilters never has yearFrom > yearTo when both are set; the
\* year-order message is only set by a step that finds the draft years
\* reversed, and that step leaves appliedFilters alone and starts no fetch.
C29_AppliedYearsOrdered ==
    /\ [](~Reversed(appliedFilters))
    /\ [][(error' = YearOrderMessage /\ error # YearOrderMessage)
          => /\ Reversed(draftFilters)
             /\ appliedFilters' = appliedFilters
             /\ calls' = calls
             /\ "fetch" \notin effects']_vars

\* Apply was refused: the draft years are reversed, the message is shown and
\* appliedFilters still has the years applied before
C29_Witness ==
    /\ mounted
    /\ error = YearOrderMessage
    /\ Reversed(draftFilters)
    /\ Has(appliedFilters, "yearFrom") /\ Has(appliedFilters, "yearTo")
    /\ appliedFilters.yearFrom <= appliedFilters.yearTo
    /\ effects = {}

=============================================================================
